---- MODULE Spec2Model ----
(***************************************************************************)
(* Verification model of the page health-check service:                    *)
(*   - the rule-based scoring engine (server/audit-server.js,              *)
(*     scoreAspCounts),                                                    *)
(*   - the dashboard's audit hook (src/hooks/useAudit.js, runAudit),       *)
(*   - the rendered census' browser life cycle (server/audit-server.js,    *)
(*     getRenderedAspCounts).                                              *)
(* Each part has its own specification; the variables of the other parts   *)
(* stay at their initial value.                                            *)
(***************************************************************************)
EXTENDS Integers, Sequences, FiniteSets, TLC

VARIABLES
    counts,      \* scoring: the normalised CensusCounts handed to scoreAspCounts
    scoreResult, \* scoring: the ScoreResult returned, NoResult before the call
    scorePc,     \* scoring: "request" before scoreAspCounts ran, "scored" after
    status,      \* useAudit: the status text
    error,       \* useAudit: the error text, "" when there is none
    psiAudit,    \* useAudit: the parsed page-speed result, Null when unset
    domAudit,    \* useAudit: the parsed DOM census result, Null when unset
    isRunning,   \* useAudit: TRUE while runAudit is in flight
    psiRes,      \* useAudit: the fetch of /api/audit of the run in flight
    domRes,      \* useAudit: the fetch of /api/asp-recommendations of the run in flight
    runs,        \* useAudit: the number of runAudit calls made so far
    censusPc,    \* census: per call, the step getRenderedAspCounts is at
    chromeProc,  \* census: per call, the Chrome process: none, running, killed
    browser,     \* census: per call, TRUE once puppeteer.connect returned
    thrown,      \* census: per call, TRUE once a step has thrown
    disconnects, \* census: per call, browser.disconnect: none, done, failed
    kills,       \* census: per call, chrome.kill: none, done, failed
    probePc,     \* size probe: the step getRemoteSizeBytes is at
    probeValue,  \* size probe: the value returned, NoBytes when none
    headCl,      \* size probe: content-length of the HEAD response
    rangeCr,     \* size probe: content-range of the Range response
    rangeCl,     \* size probe: content-length of the Range response
    timerSet,    \* size probe: TRUE while the abort timer is armed
    aborted,     \* size probe: TRUE once the timer has fired ac.abort()
    probeSteps,  \* size probe: the requests issued and the body read so far
    poolPc,      \* top images: idle, running, done or rejected
    urls,        \* top images: the image URLs of the section
    items,       \* pool: the items handed to mapWithConcurrency
    nextIdx,     \* pool: the shared counter i (0-based, as in the code)
    results,     \* pool: the results array, one slot per item
    workers,     \* pool: per worker, what it does and the index it holds
    probed,      \* pool: per URL, how its size probe ended (the remote's log)
    invoked,     \* pool: per item, how often the mapper was started on it
                 \* and the rank of its settling among the settlings
    mapped,      \* top images: what mapWithConcurrency resolved with
    topImages,   \* top images: what getTopImagesForUrls resolved with
    page,        \* DOM census: the page the engines count
    ran,         \* DOM census: the engines that have counted the page
    rendered,    \* DOM census: the counts of page.evaluate
    static,      \* DOM census: the counts of buildAspPerfCounts
    env,         \* server: PSI_API_KEY and TARGET_URL of the process
    req,         \* server: the request being served
    apiPc,       \* server: idle, the call the handler awaits, or responded
    response,    \* server: the response sent
    calls,       \* server: the outbound calls the handler has made
    secPc,       \* section probes: idle, probing or done
    secUrls,     \* section probes: per section, the number of its image URLs
    secLeft,     \* section probes: per section, the URLs not yet probed
    secOut,      \* section probes: per section, the probes outstanding
    hook,        \* dashboard: which of the two useRecommendations is mounted
    auditRuns,   \* dashboard: the audit runs started so far
    shownAudit,  \* dashboard: the run psiAudit comes from, 0 when it is null
    auditBusy,   \* dashboard: isRunning of useAudit
    openAiKey,   \* dashboard: the text of the key input
    aiRunning,   \* dashboard: a recommendations request is in progress
    aiText,      \* dashboard: the run the shown text is about, 0 when ""
    extracted,   \* dashboard: the run the extracted data is about, 0 when null
    suggestedKeywords, \* dashboard: the run the keywords are about, 0 when []
    aiError,     \* dashboard: error of useRecommendations
    flight,      \* dashboard: the recommendations request in flight, if any
    sent,        \* dashboard: every request sent to the audit backend
    forwarded,   \* backend: the keys it has put in a request to the LLM
    tree,        \* carousel roots: the elements of the document
    scope,       \* carousel roots: the element searched, 0 for the document
    found,       \* carousel roots: what getCarouselRoots returned
    rootsPc      \* carousel roots: idle or done

scoreVars == <<counts, scoreResult, scorePc>>
auditVars == <<status, error, psiAudit, domAudit, isRunning, psiRes, domRes, runs>>

censusVars == <<censusPc, chromeProc, browser, thrown, disconnects, kills>>

probeVars == <<probePc, probeValue, headCl, rangeCr, rangeCl, timerSet, aborted, probeSteps>>

poolVars == <<poolPc, urls, items, nextIdx, results, workers, probed, invoked, mapped, topImages>>

domVars == <<page, ran, rendered, static>>

apiVars == <<env, req, apiPc, response, calls>>

secVars == <<secPc, secUrls, secLeft, secOut>>

dashVars == <<hook, auditRuns, shownAudit, auditBusy, openAiKey, aiRunning, aiText,
              extracted, suggestedKeywords, aiError, flight, sent, forwarded>>

rootVars == <<tree, scope, found, rootsPc>>

vars == <<scoreVars, auditVars, censusVars, probeVars, poolVars, domVars, apiVars, secVars,
          dashVars, rootVars>>

\* What an action of one part leaves alone: the variables of the other parts.
notScore == <<auditVars, censusVars, probeVars, poolVars, domVars, apiVars, secVars, dashVars, rootVars>>
notAudit == <<scoreVars, censusVars, probeVars, poolVars, domVars, apiVars, secVars, dashVars, rootVars>>
notCensus == <<scoreVars, auditVars, probeVars, poolVars, domVars, apiVars, secVars, dashVars, rootVars>>
notProbe == <<scoreVars, auditVars, censusVars, poolVars, domVars, apiVars, secVars, dashVars, rootVars>>
notPool == <<scoreVars, auditVars, censusVars, probeVars, domVars, apiVars, secVars, dashVars, rootVars>>
notDom == <<scoreVars, auditVars, censusVars, probeVars, poolVars, apiVars, secVars, dashVars, rootVars>>
notApi == <<scoreVars, auditVars, censusVars, probeVars, poolVars, domVars, secVars, dashVars, rootVars>>
notSec == <<scoreVars, auditVars, censusVars, probeVars, poolVars, domVars, apiVars, dashVars, rootVars>>
notDash == <<scoreVars, auditVars, censusVars, probeVars, poolVars, domVars, apiVars, secVars, rootVars>>
notRoots == <<scoreVars, auditVars, censusVars, probeVars, poolVars, domVars, apiVars, secVars, dashVars>>

\* ------------------------------------------------------------------ bounds

\* How far above the last threshold of a ladder the largest sampled count lies.
Over == 1

\* How many times the dashboard's user runs an audit.
MaxRuns == 3

\* How many calls of getRenderedAspCounts are in progress together.
MaxCalls == 2

\* The largest byte count a remote resource reports.
MaxBytes == 2

\* The longest list of image URLs a section has.
MaxUrls == 4

\* The arguments of getTopImagesForUrls, scaled down from the 40, 3 and 6
\* its caller passes: how many URLs are probed, how many entries are kept,
\* how many probes run together.
MaxToCheck == 3
TopN == 2
Concurrency == 2

\* The most elements of a document searched for carousel roots.
MaxNodes == 3

\* The most audit runs started from the dashboard.
MaxAudits == 2

\* The most sections of a page whose images are probed.
MaxSections == 2

\* The most real slides, and the most clones, a carousel of a page has.
MaxReal == 2
MaxClones == 2

\* The most elements of one ad-slot or library-list class a page has.
MaxSlots == 1

\* ------------------------------------------------------------ scoring engine

NoResult == [overall |-> [score |-> -1, severity |-> "none", label |-> "none"],
             findings |-> <<>>, recommendations |-> <<>>]

\* Math.max(min, Math.min(max, n))
Min2(a, b) == IF a < b THEN a ELSE b
Max2(a, b) == IF a > b THEN a ELSE b

\* clamp without its lower limit.
clampNoFloor(n, min, max) == Min2(max, n)

clamp(n, min, max) == Max2(min, Min2(max, n))

\* A finding keeps the fields the engine computes with; label, message and
\* threshold are fixed texts of each branch.
makeFinding(key, value, severity, points) ==
    [key |-> key, value |-> value, severity |-> severity, points |-> points]

severityFromScore(score) ==
    IF score >= 85 THEN "good" ELSE IF score >= 65 THEN "warn" ELSE "bad"

labelFromScore(score) ==
    IF score >= 85 THEN "Good" ELSE IF score >= 65 THEN "Needs attention" ELSE "Heavy"

\* Each block of scoreAspCounts yields the findings it pushes (a sequence of
\* length 0 or 1) and the amount it subtracts from the running score.
Block(fs, ded) == [findings |-> fs, deduction |-> ded]

\* The sections ladder with its bad trigger at 24 instead of above 24.
SectionsBlockInclusive(c) ==
    IF c.sections >= 24
      THEN Block(<<makeFinding("sections", c.sections, "bad", -18)>>, 18)
    ELSE IF c.sections > 16
      THEN Block(<<makeFinding("sections", c.sections, "warn", -10)>>, 10)
    ELSE Block(<<makeFinding("sections", c.sections, "good", 0)>>, 0)

SectionsBlock(c) ==
    IF c.sections > 24
      THEN Block(<<makeFinding("sections", c.sections, "bad", -18)>>, 18)
    ELSE IF c.sections > 16
      THEN Block(<<makeFinding("sections", c.sections, "warn", -10)>>, 10)
    ELSE Block(<<makeFinding("sections", c.sections, "good", 0)>>, 0)

\* value is the text `${carouselCount} carousels / ${carouselSlides} slides`,
\* kept as the pair of numbers it is formatted from.
CarouselsBlock(c) ==
    LET carouselCount == c.carousels.count
        carouselSlides == c.carousels.slidesTotal
        value == <<carouselCount, carouselSlides>>
    IN  IF carouselCount >= 3
          THEN Block(<<makeFinding("carousels", value, "bad", -15)>>, 15)
        ELSE IF carouselCount >= 2
          THEN Block(<<makeFinding("carousels", value, "warn", -10)>>, 10)
        ELSE Block(<<makeFinding("carousels", value, "good", 0)>>, 0)

\* "Extra: penalise huge slide counts": no else branch, nothing is pushed
\* when carouselSlides <= 16.
CarouselSlidesBlock(c) ==
    LET carouselSlides == c.carousels.slidesTotal
    IN  IF carouselSlides > 16
          THEN Block(<<makeFinding("carouselSlides", carouselSlides,
                                   IF carouselSlides > 24 THEN "bad" ELSE "warn", -8)>>, 8)
        ELSE Block(<<>>, 0)

TestimonialsBlock(c) ==
    LET testimonialBlocks == c.testimonials.count
        testimonialItems == c.testimonials.itemsTotal
        value == <<testimonialBlocks, testimonialItems>>
    IN  IF testimonialBlocks >= 3 \/ testimonialItems > 18
          THEN Block(<<makeFinding("testimonials", value, "warn", -10)>>, 10)
        ELSE Block(<<makeFinding("testimonials", value, "good", 0)>>, 0)

LibrariesBlock(c) ==
    LET libContainers == c.libraries.containers
        libTypesTotal == c.libraries.typesTotal
        value == <<libContainers, libTypesTotal>>
    IN  IF libContainers > 1 \/ libTypesTotal >= 3
          THEN Block(<<makeFinding("libraries", value,
                                   IF libTypesTotal >= 4 THEN "bad" ELSE "warn", -10)>>, 10)
        ELSE Block(<<makeFinding("libraries", value, "good", 0)>>, 0)

ImagesBlock(c) ==
    LET images == c.media.images
    IN  IF images > 60
          THEN Block(<<makeFinding("images", images,
                                   IF images > 90 THEN "bad" ELSE "warn", -12)>>, 12)
        ELSE IF images > 40
          THEN Block(<<makeFinding("images", images, "warn", -7)>>, 7)
        ELSE Block(<<makeFinding("images", images, "good", 0)>>, 0)

VideosBlock(c) ==
    LET videos == c.media.videos
    IN  IF videos >= 3
          THEN Block(<<makeFinding("videos", videos,
                                   IF videos >= 5 THEN "bad" ELSE "warn", -10)>>, 10)
        ELSE Block(<<makeFinding("videos", videos, "good", 0)>>, 0)

\* The iframes ladder with its -15 tier starting above 4 instead of at 4.
IframesBlockStrict(c) ==
    LET iframes == c.media.iframes
    IN  IF iframes > 4
          THEN Block(<<makeFinding("iframes", iframes,
                                   IF iframes >= 6 THEN "bad" ELSE "warn", -15)>>, 15)
        ELSE IF iframes >= 2
          THEN Block(<<makeFinding("iframes", iframes, "warn", -8)>>, 8)
        ELSE Block(<<makeFinding("iframes", iframes, "good", 0)>>, 0)

IframesBlock(c) ==
    LET iframes == c.media.iframes
    IN  IF iframes >= 4
          THEN Block(<<makeFinding("iframes", iframes,
                                   IF iframes >= 6 THEN "bad" ELSE "warn", -15)>>, 15)
        ELSE IF iframes >= 2
          THEN Block(<<makeFinding("iframes", iframes, "warn", -8)>>, 8)
        ELSE Block(<<makeFinding("iframes", iframes, "good", 0)>>, 0)

AdSpaceBlock(c) ==
    LET adTotal == c.adSpace.total
    IN  IF adTotal >= 5
          THEN Block(<<makeFinding("adSpace", adTotal, "bad", -15)>>, 15)
        ELSE IF adTotal >= 3
          THEN Block(<<makeFinding("adSpace", adTotal, "warn", -8)>>, 8)
        ELSE Block(<<makeFinding("adSpace", adTotal, "good", 0)>>, 0)

\* The blocks in the order scoreAspCounts runs them.
ScoreBlocks(c) ==
    << SectionsBlock(c), CarouselsBlock(c), CarouselSlidesBlock(c),
       TestimonialsBlock(c), LibrariesBlock(c), ImagesBlock(c),
       VideosBlock(c), IframesBlock(c), AdSpaceBlock(c) >>

RECURSIVE ConcatFindings(_)
ConcatFindings(blocks) ==
    IF blocks = <<>> THEN <<>>
    ELSE Head(blocks).findings \o ConcatFindings(Tail(blocks))

\* `let score = 100; ... score -= d; ...`: the running total, not clamped.
RECURSIVE RunningScore(_, _)
RunningScore(score, blocks) ==
    IF blocks = <<>> THEN score
    ELSE RunningScore(score - Head(blocks).deduction, Tail(blocks))

\* A filter that keeps the bad findings only.
RECURSIVE FilterBadOnly(_)
FilterBadOnly(fs) ==
    IF fs = <<>> THEN <<>>
    ELSE IF Head(fs).severity = "bad"
      THEN <<Head(fs)>> \o FilterBadOnly(Tail(fs))
    ELSE FilterBadOnly(Tail(fs))

\* findings.filter((f) => f.severity !== "good")
RECURSIVE FilterNonGood(_)
FilterNonGood(fs) ==
    IF fs = <<>> THEN <<>>
    ELSE IF Head(fs).severity # "good"
      THEN <<Head(fs)>> \o FilterNonGood(Tail(fs))
    ELSE FilterNonGood(Tail(fs))

\* The comparator turned round: descending points.
ComparePointsDescending(a, b) == b.points - a.points

\* The comparator of the sort: (a, b) => a.points - b.points.
ComparePoints(a, b) == a.points - b.points

\* Array.prototype.sort is stable: an element is inserted after the elements
\* that do not compare greater than it.
RECURSIVE InsertSorted(_, _)
InsertSorted(f, sorted) ==
    IF sorted = <<>> THEN <<f>>
    ELSE IF ComparePoints(Head(sorted), f) <= 0
      THEN <<Head(sorted)>> \o InsertSorted(f, Tail(sorted))
    ELSE <<f>> \o sorted

RECURSIVE SortByPoints(_)
SortByPoints(fs) ==
    IF fs = <<>> THEN <<>>
    ELSE InsertSorted(fs[Len(fs)], SortByPoints(SubSeq(fs, 1, Len(fs) - 1)))

\* The switch on f.key: the title of the fixed template of each key.
RecommendationFor(f) ==
    [key |-> f.key,
     title |-> CASE f.key = "sections" -> "Reduce overall page complexity"
                 [] f.key \in {"carousels", "carouselSlides"} -> "Keep carousels lean"
                 [] f.key = "testimonials" -> "Trim testimonial payload"
                 [] f.key = "libraries" -> "Review library modules"
                 [] f.key = "images" -> "Optimise images"
                 [] f.key = "videos" -> "Defer and optimise videos"
                 [] f.key = "iframes" -> "Minimise third-party embeds"
                 [] f.key = "adSpace" -> "Reduce ad density"
                 [] OTHER -> "label"]

Recommendations(findings) ==
    LET ranked == SortByPoints(FilterNonGood(findings))
    IN  [i \in 1..Len(ranked) |-> RecommendationFor(ranked[i])]

scoreAspCounts(c) ==
    LET blocks == ScoreBlocks(c)
        findings == ConcatFindings(blocks)
        score == clamp(RunningScore(100, blocks), 0, 100)
    IN  [overall |-> [score |-> score,
                      severity |-> severityFromScore(score),
                      label |-> labelFromScore(score)],
         findings |-> findings,
         recommendations |-> Recommendations(findings)]

\* ---------------------------------------------------------- scoring inputs

\* Counts on both sides of the thresholds of each ladder.
SectionsSamples == {16, 17, 24, 24 + Over}
CarouselSamples ==
    { [count |-> n, slidesTotal |-> s] : n \in {1, 2, 2 + Over}, s \in {16, 17, 24, 24 + Over} }
TestimonialSamples ==
    { [count |-> 2, itemsTotal |-> 18], [count |-> 2 + Over, itemsTotal |-> 18],
      [count |-> 2, itemsTotal |-> 18 + Over] }
LibrarySamples ==
    { [containers |-> 1, typesTotal |-> 2], [containers |-> 1 + Over, typesTotal |-> 2],
      [containers |-> 1, typesTotal |-> 3], [containers |-> 1, typesTotal |-> 3 + Over] }
MediaSamples ==
    { [images |-> i, videos |-> v, iframes |-> f] :
        i \in {40, 41, 60, 61, 90, 90 + Over},
        v \in {2, 3, 4, 4 + Over},
        f \in {1, 2, 3, 4, 5, 5 + Over} }
AdSpaceSamples == { [total |-> t] : t \in {2, 3, 4, 4 + Over} }

CountsSamples ==
    [sections : SectionsSamples, carousels : CarouselSamples,
     testimonials : TestimonialSamples, libraries : LibrarySamples,
     media : MediaSamples, adSpace : AdSpaceSamples]

ScoreInit ==
    /\ counts \in CountsSamples
    /\ scoreResult = NoResult
    /\ scorePc = "request"

\* The scoring engine at rest, for the specifications of the other parts.
ScoreIdle ==
    /\ counts = [sections |-> 0, carousels |-> [count |-> 0, slidesTotal |-> 0],
                 testimonials |-> [count |-> 0, itemsTotal |-> 0],
                 libraries |-> [containers |-> 0, typesTotal |-> 0],
                 media |-> [images |-> 0, videos |-> 0, iframes |-> 0],
                 adSpace |-> [total |-> 0]]
    /\ scoreResult = NoResult
    /\ scorePc = "idle"

\* const asp = scoreAspCounts(normalisedCounts) in GET /api/asp-recommendations
Score ==
    /\ scorePc = "request"
    /\ scoreResult' = scoreAspCounts(counts)
    /\ scorePc' = "scored"
    /\ UNCHANGED <<counts, notScore>>

\* ------------------------------------------------------- useAudit (client)

\* null, and the value JSON.parse gives for a body.
Null == [source |-> "none", ok |-> FALSE]

\* A fetch: pending, rejected (network failure) or fulfilled with a response;
\* ok is res.ok, body tells what res.text() gives: a JSON text, a text that
\* is no JSON, or a stream that cannot be read (text() rejects).
Pending == [state |-> "pending", ok |-> FALSE, body |-> "none"]
Rejected == [state |-> "rejected", ok |-> FALSE, body |-> "none"]
Responses == [state : {"fulfilled"}, ok : BOOLEAN, body : {"json", "text", "unreadable"}]
Outcomes == Responses \cup {Rejected}

\* try { json = JSON.parse(text) } catch { json = null }
ParseJson(source, res) ==
    IF res.body = "json" THEN [source |-> source, ok |-> res.ok] ELSE Null

AuditIdle ==
    /\ status = "Idle"
    /\ error = ""
    /\ psiAudit = Null
    /\ domAudit = Null
    /\ isRunning = FALSE
    /\ psiRes = Pending
    /\ domRes = Pending
    /\ runs = 0

\* runAudit up to the first await: the setters and the two fetch calls. The
\* button that calls it is disabled while isRunning.
RunAuditStart ==
    /\ ~isRunning
    /\ runs < MaxRuns
    /\ runs' = runs + 1
    /\ error' = ""
    /\ status' = "Running audit"
    /\ isRunning' = TRUE
    /\ psiAudit' = Null
    /\ domAudit' = Null
    /\ psiRes' = Pending
    /\ domRes' = Pending
    /\ UNCHANGED <<notAudit>>

\* fetch(`${API_BASE}/api/audit?url=...`) settles.
PsiFetchSettles ==
    /\ isRunning
    /\ psiRes = Pending
    /\ \E r \in Outcomes : psiRes' = r
    /\ UNCHANGED <<status, error, psiAudit, domAudit, isRunning, domRes, runs,
                   notAudit>>

\* fetch(`${API_BASE}/api/asp-recommendations?url=...`) settles.
DomFetchSettles ==
    /\ isRunning
    /\ domRes = Pending
    /\ \E r \in Outcomes : domRes' = r
    /\ UNCHANGED <<status, error, psiAudit, domAudit, isRunning, psiRes, runs,
                   notAudit>>

\* catch (e) { setError(...); setStatus("Failed") } finally { setIsRunning(false) }
RunAuditCatch(message) ==
    /\ error' = message
    /\ status' = "Failed"
    /\ isRunning' = FALSE
    /\ UNCHANGED <<psiAudit, domAudit>>

\* Promise.all of the two fetches rejects as soon as one of them rejects.
RunAuditFetchRejected ==
    /\ isRunning
    /\ psiRes = Rejected \/ domRes = Rejected
    /\ RunAuditCatch("Failed to fetch")
    /\ UNCHANGED <<psiRes, domRes, runs, notAudit>>

\* runAudit after both fetches are fulfilled: the bodies are read and parsed,
\* a response that is not ok throws, else the results are stored.
RunAuditSettle ==
    /\ isRunning
    /\ psiRes.state = "fulfilled" /\ domRes.state = "fulfilled"
    /\ IF psiRes.body = "unreadable" \/ domRes.body = "unreadable"
         THEN RunAuditCatch("body stream error")
       ELSE IF ~psiRes.ok
         THEN RunAuditCatch("PSI failed")
       ELSE IF ~domRes.ok
         THEN RunAuditCatch("DOM audit failed")
       ELSE /\ psiAudit' = ParseJson("psi", psiRes)
            /\ domAudit' = ParseJson("dom", domRes)
            /\ status' = "Done"
            /\ isRunning' = FALSE
            /\ UNCHANGED error
    /\ UNCHANGED <<psiRes, domRes, runs, notAudit>>

\* ------------------------------------- getRenderedAspCounts (browser life)

Calls == 1..MaxCalls

\* The awaited steps of the try block, in order.
TrySteps ==
    <<"connect", "newPage", "setViewport", "setUserAgent", "goto", "scroll",
      "evaluate", "probe", "close">>

StepAfter(step) ==
    LET i == CHOOSE i \in 1..Len(TrySteps) : TrySteps[i] = step
    IN  IF i = Len(TrySteps) THEN "disconnect" ELSE TrySteps[i + 1]

CensusIdle ==
    /\ censusPc = [c \in Calls |-> "idle"]
    /\ chromeProc = [c \in Calls |-> "none"]
    /\ browser = [c \in Calls |-> FALSE]
    /\ thrown = [c \in Calls |-> FALSE]
    /\ disconnects = [c \in Calls |-> "none"]
    /\ kills = [c \in Calls |-> "none"]

\* const chrome = await chromeLauncher.launch(...): outside the try block, a
\* failed launch rejects the call with nothing to release.
Launch(c) ==
    /\ censusPc[c] = "idle"
    /\ \E ok \in BOOLEAN :
         IF ok
           THEN /\ chromeProc' = [chromeProc EXCEPT ![c] = "running"]
                /\ censusPc' = [censusPc EXCEPT ![c] = "connect"]
                /\ UNCHANGED thrown
           ELSE /\ censusPc' = [censusPc EXCEPT ![c] = "settled"]
                /\ thrown' = [thrown EXCEPT ![c] = TRUE]
                /\ UNCHANGED chromeProc
    /\ UNCHANGED <<browser, disconnects, kills, notCensus>>

\* An awaited step of the try block: it returns and the next step follows,
\* or it throws and control passes to the finally block.
TryStep(c, step) ==
    /\ censusPc[c] = step
    /\ \E ok \in BOOLEAN :
         IF ok
           THEN /\ censusPc' = [censusPc EXCEPT ![c] = StepAfter(step)]
                /\ browser' = IF step = "connect"
                                THEN [browser EXCEPT ![c] = TRUE] ELSE browser
                /\ UNCHANGED thrown
           ELSE /\ censusPc' = [censusPc EXCEPT ![c] = "disconnect"]
                /\ thrown' = [thrown EXCEPT ![c] = TRUE]
                /\ UNCHANGED browser
    /\ UNCHANGED <<chromeProc, disconnects, kills, notCensus>>

\* browser = await puppeteer.connect(...)
Connect(c) == TryStep(c, "connect")
\* const page = await browser.newPage()
NewPage(c) == TryStep(c, "newPage")
\* await page.setViewport(...)
SetViewport(c) == TryStep(c, "setViewport")
\* await page.setUserAgent(...)
SetUserAgent(c) == TryStep(c, "setUserAgent")
\* await page.goto(targetUrl, { waitUntil: "networkidle2", timeout: 90000 })
Goto(c) == TryStep(c, "goto")
\* await page.evaluate(...): the lazy-render scroll
Scroll(c) == TryStep(c, "scroll")
\* const counts = await page.evaluate(...): the census
Evaluate(c) == TryStep(c, "evaluate")
\* await Promise.all(counts.sections.breakdown.map(...)): the top images
ProbeImages(c) == TryStep(c, "probe")
\* await page.close(); return counts
ClosePage(c) == TryStep(c, "close")

\* A finally block with disconnect and kill in one try: a failing
\* disconnect skips the kill.
DisconnectSharedTry(c) ==
    /\ censusPc[c] = "disconnect"
    /\ IF browser[c]
         THEN \E ok \in BOOLEAN :
                /\ disconnects' = [disconnects EXCEPT ![c] = IF ok THEN "done" ELSE "failed"]
                /\ censusPc' = [censusPc EXCEPT ![c] = IF ok THEN "kill" ELSE "settled"]
         ELSE /\ censusPc' = [censusPc EXCEPT ![c] = "kill"]
              /\ UNCHANGED disconnects
    /\ UNCHANGED <<chromeProc, browser, thrown, kills, notCensus>>

\* finally { try { if (browser) await browser.disconnect(); } catch {} ...
Disconnect(c) ==
    /\ censusPc[c] = "disconnect"
    /\ IF browser[c]
         THEN \E ok \in BOOLEAN :
                disconnects' = [disconnects EXCEPT ![c] = IF ok THEN "done" ELSE "failed"]
         ELSE UNCHANGED disconnects
    /\ censusPc' = [censusPc EXCEPT ![c] = "kill"]
    /\ UNCHANGED <<chromeProc, browser, thrown, kills, notCensus>>

\* ... try { await chrome.kill(); } catch {} }: then the call settles, with
\* the counts or with what the try block threw.
Kill(c) ==
    /\ censusPc[c] = "kill"
    /\ \E ok \in BOOLEAN :
         /\ kills' = [kills EXCEPT ![c] = IF ok THEN "done" ELSE "failed"]
         /\ chromeProc' = IF ok THEN [chromeProc EXCEPT ![c] = "killed"] ELSE chromeProc
    /\ censusPc' = [censusPc EXCEPT ![c] = "settled"]
    /\ UNCHANGED <<browser, thrown, disconnects, notCensus>>

\* ------------------------------------------- getRemoteSizeBytes (size probe)

NoBytes == -1

\* The text of a header as headers.get gives it: null when the header is
\* absent, else a string that is empty, no number, or the digits of n.
Absent == [kind |-> "absent", n |-> 0]
EmptyText == [kind |-> "empty", n |-> 0]
NotNumber == [kind |-> "text", n |-> 0]
Digits(n) == [kind |-> "digits", n |-> n]

HeaderTexts == {Absent, EmptyText, NotNumber} \cup { Digits(n) : n \in 0..MaxBytes }

\* cl && Number.isFinite(Number(cl)): null and "" are falsy, a text that is
\* no number converts to NaN.
IsNumeric(h) == h.kind = "digits"

\* Number(cl)
ToNumber(h) == h.n

\* content-range as headers.get gives it: null, or a text whose part after
\* the first "/" (cr.split("/")[1]) is missing, no number ("*"), or digits.
ContentRanges ==
    [present : {FALSE}, total : {Absent}] \cup
    [present : {TRUE}, total : {Absent, NotNumber} \cup { Digits(n) : n \in 1..MaxBytes }]

NoRange == [present |-> FALSE, total |-> Absent]

ProbeIdle ==
    /\ probePc = "idle"
    /\ probeValue = NoBytes
    /\ headCl = Absent
    /\ rangeCr = NoRange
    /\ rangeCl = Absent
    /\ timerSet = FALSE
    /\ aborted = FALSE
    /\ probeSteps = {}

\* const t = setTimeout(() => ac.abort(), timeoutMs); fetch(url, HEAD)
ProbeStart ==
    /\ probePc = "idle"
    /\ probePc' = "head"
    /\ timerSet' = TRUE
    /\ probeSteps' = {"head"}
    /\ UNCHANGED <<probeValue, headCl, rangeCr, rangeCl, aborted, notProbe>>

\* The timer fires while a request or the body is awaited: ac.abort().
ProbeTimeout ==
    /\ probePc \in {"head", "range", "body"}
    /\ timerSet /\ ~aborted
    /\ aborted' = TRUE
    /\ UNCHANGED <<probePc, probeValue, headCl, rangeCr, rangeCl, timerSet, probeSteps, notProbe>>

\* return v: the finally block clears the timer, the promise is fulfilled.
ProbeReturn(v) ==
    /\ probePc' = "returned"
    /\ probeValue' = v
    /\ timerSet' = FALSE

\* An awaited fetch or body read rejects (network failure, AbortError):
\* there is no catch, the finally block clears the timer and the promise of
\* getRemoteSizeBytes rejects.
ProbeThrow ==
    /\ probePc' = "threw"
    /\ timerSet' = FALSE
    /\ UNCHANGED probeValue

\* 1) HEAD: const head = await fetch(...); content-length decides.
HeadSettles ==
    /\ probePc = "head"
    /\ \/ /\ ProbeThrow
          /\ UNCHANGED <<headCl, rangeCr, rangeCl, aborted, probeSteps, notProbe>>
       \/ /\ ~aborted
          /\ \E cl \in HeaderTexts :
               /\ headCl' = cl
               /\ IF IsNumeric(cl)
                    THEN ProbeReturn(ToNumber(cl)) /\ UNCHANGED probeSteps
                    ELSE /\ probePc' = "range"
                         /\ probeSteps' = probeSteps \cup {"range"}
                         /\ UNCHANGED <<probeValue, timerSet>>
          /\ UNCHANGED <<rangeCr, rangeCl, aborted, notProbe>>

\* A Range step that looks at content-length before content-range.
RangeSettlesLengthFirst ==
    /\ probePc = "range"
    /\ \/ /\ ProbeThrow
          /\ UNCHANGED <<headCl, rangeCr, rangeCl, aborted, probeSteps, notProbe>>
       \/ /\ ~aborted
          /\ \E cr \in ContentRanges, cl2 \in HeaderTexts :
               /\ rangeCr' = cr
               /\ rangeCl' = cl2
               /\ IF IsNumeric(cl2)
                    THEN ProbeReturn(ToNumber(cl2)) /\ UNCHANGED probeSteps
                  ELSE IF cr.present /\ IsNumeric(cr.total)
                    THEN ProbeReturn(ToNumber(cr.total)) /\ UNCHANGED probeSteps
                  ELSE /\ probePc' = "body"
                       /\ probeSteps' = probeSteps \cup {"body"}
                       /\ UNCHANGED <<probeValue, timerSet>>
          /\ UNCHANGED <<headCl, aborted, notProbe>>

\* 2) Range probe: content-range total, then content-length, else the body.
RangeSettles ==
    /\ probePc = "range"
    /\ \/ /\ ProbeThrow
          /\ UNCHANGED <<headCl, rangeCr, rangeCl, aborted, probeSteps, notProbe>>
       \/ /\ ~aborted
          /\ \E cr \in ContentRanges, cl2 \in HeaderTexts :
               /\ rangeCr' = cr
               /\ rangeCl' = cl2
               /\ IF cr.present /\ IsNumeric(cr.total)
                    THEN ProbeReturn(ToNumber(cr.total)) /\ UNCHANGED probeSteps
                  ELSE IF IsNumeric(cl2)
                    THEN ProbeReturn(ToNumber(cl2)) /\ UNCHANGED probeSteps
                  ELSE /\ probePc' = "body"
                       /\ probeSteps' = probeSteps \cup {"body"}
                       /\ UNCHANGED <<probeValue, timerSet>>
          /\ UNCHANGED <<headCl, aborted, notProbe>>

\* 3) const buf = await range.arrayBuffer(); return buf.byteLength
BodySettles ==
    /\ probePc = "body"
    /\ \/ /\ ProbeThrow
          /\ UNCHANGED <<headCl, rangeCr, rangeCl, aborted, probeSteps, notProbe>>
       \/ /\ ~aborted
          /\ \E n \in 0..MaxBytes : ProbeReturn(n)
          /\ UNCHANGED <<headCl, rangeCr, rangeCl, aborted, probeSteps, notProbe>>

\* --------------------------- mapWithConcurrency and getTopImagesForUrls

\* A slot of `new Array(items.length)` nothing was assigned to; null; and an
\* entry { url, name, bytes, kb, mb } (name and mb are texts derived from url
\* and bytes).
Hole == [kind |-> "hole", url |-> 0, bytes |-> 0, kb |-> 0]
NullEntry == [kind |-> "null", url |-> 0, bytes |-> 0, kb |-> 0]

\* Math.round(bytes / 1024)
RoundKb(bytes) == (2 * bytes + 1024) \div 2048

Entry(url, bytes) == [kind |-> "entry", url |-> url, bytes |-> bytes, kb |-> RoundKb(bytes)]

\* What getRemoteSizeBytes does for the mapper: it returns a byte count or
\* it throws.
Threw == [threw |-> TRUE, bytes |-> 0]
ProbeOutcomes == {Threw} \cup { [threw |-> FALSE, bytes |-> b] : b \in 0..MaxBytes }

\* (urls || []).slice(0, maxToCheck)
SliceFirst(list, n) == SubSeq(list, 1, Min2(n, Len(list)))

\* A pool of one worker per item, whatever the limit.
PoolSizeOfItems(limit, len) == Max2(1, len)

\* Math.max(1, Math.min(limit, items.length))
PoolSize(limit, len) == Max2(1, Min2(limit, len))

\* results.filter(Boolean): holes are skipped, null is falsy, an entry is
\* an object and truthy.
RECURSIVE FilterBoolean(_)
FilterBoolean(rs) ==
    IF rs = <<>> THEN <<>>
    ELSE IF Head(rs).kind = "entry"
      THEN <<Head(rs)>> \o FilterBoolean(Tail(rs))
    ELSE FilterBoolean(Tail(rs))

\* The comparator of sized.sort: (a, b) => b.bytes - a.bytes.
CompareBytes(a, b) == b.bytes - a.bytes

RECURSIVE InsertByBytes(_, _)
InsertByBytes(e, sorted) ==
    IF sorted = <<>> THEN <<e>>
    ELSE IF CompareBytes(Head(sorted), e) <= 0
      THEN <<Head(sorted)>> \o InsertByBytes(e, Tail(sorted))
    ELSE <<e>> \o sorted

\* sized.sort(...): stable.
RECURSIVE SortByBytes(_)
SortByBytes(es) ==
    IF es = <<>> THEN <<>>
    ELSE InsertByBytes(es[Len(es)], SortByBytes(SubSeq(es, 1, Len(es) - 1)))

\* The workers Array.from({ length: poolSize }, ...) can make.
WorkerIds == 1..Max2(Concurrency, MaxToCheck)

Resting == [pc |-> "none", idx |-> 0]
Finished == [pc |-> "done", idx |-> 0]
Awaiting(idx) == [pc |-> "await", idx |-> idx]

PoolIdle ==
    /\ poolPc = "idle"
    /\ urls = <<>>
    /\ items = <<>>
    /\ nextIdx = 0
    /\ results = <<>>
    /\ workers = [w \in WorkerIds |-> Resting]
    /\ probed = <<>>
    /\ invoked = <<>>
    /\ mapped = <<>>
    /\ topImages = <<>>

\* The image URLs of a section: distinct, so numbered.
UrlLists == { [k \in 1..n |-> k] : n \in 0..MaxUrls }

\* getTopImagesForUrls up to its await, and mapWithConcurrency up to its
\* own: the worker calls run one after the other, each up to its first
\* await: while (i < items.length) { const idx = i++; await mapper(...) }.
TopImagesStart ==
    /\ poolPc = "idle"
    /\ \E list \in UrlLists :
         LET checked == SliceFirst(list, MaxToCheck)
             size == PoolSize(Concurrency, Len(checked))
         IN  /\ urls' = list
             /\ items' = checked
             /\ results' = [k \in 1..Len(checked) |-> Hole]
             /\ probed' = [k \in 1..Len(list) |-> "none"]
             /\ invoked' = [k \in 1..Len(checked) |->
                             [started |-> IF k <= size THEN 1 ELSE 0, rank |-> 0]]
             /\ workers' = [w \in WorkerIds |->
                             IF w > size THEN Resting
                             ELSE IF w <= Len(checked) THEN Awaiting(w - 1)
                             ELSE Finished]
             /\ nextIdx' = Min2(size, Len(checked))
    /\ poolPc' = "running"
    /\ UNCHANGED <<mapped, topImages, notPool>>

\* What the worker stores for a settled mapper: the entry, or null in its
\* catch block.
Stored(url, outcome) ==
    IF outcome.threw THEN NullEntry ELSE Entry(url, outcome.bytes)

\* The rank of the next settling.
NextRank == Cardinality({ k \in 1..Len(invoked) : invoked[k].rank # 0 }) + 1

\* The log when the mapper of item settled + 1 settles and the mapper is
\* started on item next + 1 (on none when next = Len(items)).
Logged(settled, next) ==
    [k \in 1..Len(invoked) |->
       [started |-> invoked[k].started + (IF k = next + 1 THEN 1 ELSE 0),
        rank |-> IF k = settled + 1 THEN NextRank ELSE invoked[k].rank]]

\* A worker that counts through the items on its own, not with the index
\* the workers share.
WorkerLoopOwnIndex(w) ==
    IF workers[w].idx + 1 < Len(items)
      THEN /\ workers' = [workers EXCEPT ![w] = Awaiting(workers[w].idx + 1)]
           /\ invoked' = Logged(workers[w].idx, workers[w].idx + 1)
           /\ UNCHANGED nextIdx
      ELSE /\ workers' = [workers EXCEPT ![w] = Finished]
           /\ invoked' = Logged(workers[w].idx, Len(items))
           /\ UNCHANGED nextIdx

\* The worker goes round its loop: the next index, or the end.
WorkerLoop(w) ==
    IF nextIdx < Len(items)
      THEN /\ workers' = [workers EXCEPT ![w] = Awaiting(nextIdx)]
           /\ invoked' = Logged(workers[w].idx, nextIdx)
           /\ nextIdx' = nextIdx + 1
      ELSE /\ workers' = [workers EXCEPT ![w] = Finished]
           /\ invoked' = Logged(workers[w].idx, Len(items))
           /\ UNCHANGED nextIdx

\* A worker without the try/catch round its mapper: the rejection of a
\* mapper rejects the worker and, through Promise.all, the whole call.
MapperSettlesNoCatch(w) ==
    /\ poolPc = "running"
    /\ workers[w].pc = "await"
    /\ LET idx == workers[w].idx
           url == items[idx + 1]
       IN  \E outcome \in ProbeOutcomes :
             /\ probed' = [probed EXCEPT ![url] = IF outcome.threw THEN "failed" ELSE "ok"]
             /\ IF outcome.threw
                  THEN /\ poolPc' = "rejected"
                       /\ workers' = [workers EXCEPT ![w] = Finished]
                       /\ invoked' = Logged(idx, Len(items))
                       /\ UNCHANGED <<results, nextIdx>>
                  ELSE /\ results' = [results EXCEPT ![idx + 1] = Stored(url, outcome)]
                       /\ WorkerLoop(w)
                       /\ UNCHANGED poolPc
    /\ UNCHANGED <<urls, items, mapped, topImages, notPool>>

\* The mapper a worker awaits settles: try { results[idx] = await
\* mapper(items[idx], idx) } catch { results[idx] = null }, and the worker
\* goes round its loop.
MapperSettles(w) ==
    /\ poolPc = "running"
    /\ workers[w].pc = "await"
    /\ LET idx == workers[w].idx
           url == items[idx + 1]
       IN  \E outcome \in ProbeOutcomes :
             /\ probed' = [probed EXCEPT ![url] = IF outcome.threw THEN "failed" ELSE "ok"]
             /\ results' = [results EXCEPT ![idx + 1] = Stored(url, outcome)]
    /\ WorkerLoop(w)
    /\ UNCHANGED <<poolPc, urls, items, mapped, topImages, notPool>>

\* The first topN entries in probe order, without the sort.
TopOfUnsorted(sized) == SliceFirst(sized, TopN)

\* The entries getTopImagesForUrls keeps: sized.sort(...); sized.slice(0, topN)
TopOf(sized) == SliceFirst(SortByBytes(sized), TopN)

\* await Promise.all(workers) resolves once every worker has returned;
\* mapWithConcurrency returns results.filter(Boolean), getTopImagesForUrls
\* sorts it and keeps the first topN.
TopImagesResolve ==
    /\ poolPc = "running"
    /\ \A w \in WorkerIds : workers[w].pc # "await"
    /\ mapped' = FilterBoolean(results)
    /\ topImages' = TopOf(FilterBoolean(results))
    /\ poolPc' = "done"
    /\ UNCHANGED <<urls, items, nextIdx, results, workers, probed, invoked, notPool>>

\* ------------------------------------------------- the two DOM censuses

\* A slide element: its classes (slick-slide, swiper-slide,
\* w-icatcher-slider__list__item, slick-cloned, swiper-slide-duplicate) and
\* its data-swiper-slide-index attribute (0: no such attribute).
Slide(slick, swiper, item, cloned, duplicate, index) ==
    [slick |-> slick, swiper |-> swiper, item |-> item,
     cloned |-> cloned, duplicate |-> duplicate, index |-> index]

\* A carousel root as Slick leaves it: a .slick-track holding r slides and
\* c clones of them, each clone marked slick-cloned. The slides of a
\* .w-icatcher-slider are its list items.
SlickRoot(cls, r, c) ==
    [cls |-> cls, track |-> "slick-track", real |-> r, clones |-> c,
     slides |-> [k \in 1..(r + c) |->
                  Slide(TRUE, FALSE, cls = "w-icatcher-slider", k > r, FALSE, 0)]]

\* A carousel root as Swiper leaves it: a .swiper-wrapper holding r slides
\* and c duplicates marked swiper-slide-duplicate; in loop mode every slide
\* carries the index of the original it shows.
SwiperRoot(cls, r, c, indexed) ==
    [cls |-> cls, track |-> "swiper-wrapper", real |-> r, clones |-> c,
     slides |-> [k \in 1..(r + c) |->
                  Slide(FALSE, TRUE, FALSE, FALSE, k > r,
                        IF ~indexed THEN 0
                        ELSE IF k <= r THEN k
                        ELSE ((k - r - 1) % r) + 1)]]

\* Only a slide that exists is cloned.
SlideCounts == { rc \in (0..MaxReal) \X (0..MaxClones) : rc[1] = 0 => rc[2] = 0 }

\* A root no library has filled: no track, no wrapper, no slide.
BareRoot(cls) ==
    [cls |-> cls, track |-> "none", real |-> 0, clones |-> 0, slides |-> <<>>]

\* The icatcher component runs on Slick, the testimonials component on
\* Swiper; generic roots are of either library.
Roots ==
    { BareRoot(cls) : cls \in {"w-icatcher-slider", "w-testimonials"} }
    \cup
    { SlickRoot(cls, rc[1], rc[2]) :
        cls \in {"w-icatcher-slider", "slick-slider"}, rc \in SlideCounts }
    \cup
    { SwiperRoot(cls, rc[1], rc[2], indexed) :
        cls \in {"w-testimonials", "swiper"}, rc \in SlideCounts, indexed \in BOOLEAN }

SlotCounts == [{"a", "b", "c", "d"} -> 0..MaxSlots]

NoSlots == [x \in {"a", "b", "c", "d"} |-> 0]

\* A page with a looping icatcher carousel and a looping testimonials block.
LoopingRoots ==
    << SlickRoot("w-icatcher-slider", MaxReal, MaxClones),
       SwiperRoot("w-testimonials", MaxReal, MaxClones, TRUE) >>

\* The pages counted: up to two carousel roots side by side (none nested in
\* another), and the elements of the library-list and ad-slot classes of a
\* page without carousels or with the two looping ones.
Pages ==
    { [roots |-> rs, libraries |-> NoSlots, ads |-> NoSlots] :
        rs \in {<<>>} \cup { <<a>> : a \in Roots } \cup (Roots \X Roots) }
    \cup
    { [roots |-> rs, libraries |-> l, ads |-> a] :
        rs \in {<<>>, LoopingRoots}, l \in SlotCounts, a \in SlotCounts }

\* perParent.reduce((a, b) => a + b, 0)
RECURSIVE SumOf(_)
SumOf(ns) == IF ns = <<>> THEN 0 ELSE Head(ns) + SumOf(Tail(ns))

\* The number of slides of a root a selector matches.
Matching(root, Test(_)) == Cardinality({ k \in 1..Len(root.slides) : Test(root.slides[k]) })

HasClass(root, cls) == root.cls = cls

OfClass(roots, cls) == SelectSeq(roots, LAMBDA r : HasClass(r, cls))

\* getCarouselRoots(document): the ASP wrappers, then the generic roots.
getCarouselRoots(roots) ==
    OfClass(roots, "w-icatcher-slider") \o OfClass(roots, "w-testimonials")
      \o OfClass(roots, "slick-slider") \o OfClass(roots, "swiper")

\* The slides of a .swiper-wrapper: the distinct data-swiper-slide-index
\* values when any slide carries one, else the slides that are not marked
\* swiper-slide-duplicate.
SwiperSlides(root) ==
    LET indices == { root.slides[k].index : k \in { j \in 1..Len(root.slides) :
                       root.slides[j].swiper /\ root.slides[j].index # 0 } }
    IN  IF indices # {} THEN Cardinality(indices)
        ELSE Matching(root, LAMBDA s : s.swiper /\ ~s.duplicate)

\* countSlidesInCarousel without the :not(.slick-cloned) of its selectors.
countSlidesWithClones(rootEl) ==
    IF HasClass(rootEl, "w-icatcher-slider")
      THEN LET originals == Matching(rootEl, LAMBDA s : s.item)
           IN  IF originals > 0 THEN originals
               ELSE IF rootEl.track = "slick-track"
                 THEN Matching(rootEl, LAMBDA s : s.slick)
               ELSE 0
    ELSE IF HasClass(rootEl, "w-testimonials")
      THEN IF rootEl.track # "swiper-wrapper" THEN 0 ELSE SwiperSlides(rootEl)
    ELSE IF rootEl.track = "slick-track"
      THEN Matching(rootEl, LAMBDA s : s.slick)
    ELSE IF rootEl.track = "swiper-wrapper" THEN SwiperSlides(rootEl)
    ELSE 0

countSlidesInCarousel(rootEl) ==
    IF HasClass(rootEl, "w-icatcher-slider")
      THEN LET originals == Matching(rootEl, LAMBDA s : s.item /\ ~s.cloned)
           IN  IF originals > 0 THEN originals
               ELSE IF rootEl.track = "slick-track"
                 THEN Matching(rootEl, LAMBDA s : s.slick /\ ~s.cloned)
               ELSE 0
    ELSE IF HasClass(rootEl, "w-testimonials")
      THEN IF rootEl.track # "swiper-wrapper" THEN 0 ELSE SwiperSlides(rootEl)
    ELSE IF rootEl.track = "slick-track"
      THEN Matching(rootEl, LAMBDA s : s.slick /\ ~s.cloned)
    ELSE IF rootEl.track = "swiper-wrapper" THEN SwiperSlides(rootEl)
    ELSE 0

MapSeq(seq, Op(_)) == [k \in 1..Len(seq) |-> Op(seq[k])]

\* The items of a .w-testimonials block in the rendered census.
RenderedTestimonialItems(el) ==
    IF el.track = "swiper-wrapper"
      THEN Matching(el, LAMBDA s : s.swiper)
    ELSE Max2(Matching(el, LAMBDA s : s.slick /\ ~s.cloned),
              Matching(el, LAMBDA s : s.swiper))

\* The items of a .w-testimonials block in the static census.
StaticTestimonialItems(el) ==
    Max2(Matching(el, LAMBDA s : s.slick), Matching(el, LAMBDA s : s.swiper))

\* The slides of a .w-icatcher-slider in the static census.
StaticSlides(el) == Matching(el, LAMBDA s : s.slick /\ ~s.cloned)

Carousels(perCarousel) ==
    [count |-> Len(perCarousel), slidesPerCarousel |-> perCarousel, slidesTotal |-> SumOf(perCarousel)]

Testimonials(perBlock) ==
    [count |-> Len(perBlock), itemsPerBlock |-> perBlock, itemsTotal |-> SumOf(perBlock)]

Libraries(types) ==
    [types |-> types, typesTotal |-> types.a + types.b + types.c + types.d]

\* adSpaceTotal without its last term.
AdSpaceThreeSlots(slots) ==
    [slots |-> slots, total |-> slots.a + slots.b + slots.c]

AdSpace(slots) ==
    [slots |-> slots, total |-> slots.a + slots.b + slots.c + slots.d]

CensusCounts(carousels, testimonials, libraries, adSpace) ==
    [carousels |-> carousels, testimonials |-> testimonials,
     libraries |-> libraries, adSpace |-> adSpace]

NoCensus == CensusCounts(Carousels(<<>>), Testimonials(<<>>), Libraries(NoSlots), AdSpace(NoSlots))

\* The callback of page.evaluate, from its global totals on.
RenderedCounts(p) ==
    CensusCounts(
        Carousels(MapSeq(getCarouselRoots(p.roots), countSlidesInCarousel)),
        Testimonials(MapSeq(OfClass(p.roots, "w-testimonials"), RenderedTestimonialItems)),
        Libraries(p.libraries),
        AdSpace(p.ads))

buildAspPerfCounts(p) ==
    CensusCounts(
        Carousels(MapSeq(OfClass(p.roots, "w-icatcher-slider"), StaticSlides)),
        Testimonials(MapSeq(OfClass(p.roots, "w-testimonials"), StaticTestimonialItems)),
        Libraries(p.libraries),
        AdSpace(p.ads))

DomInit ==
    /\ page \in Pages
    /\ ran = {}
    /\ rendered = NoCensus
    /\ static = NoCensus

DomIdle ==
    /\ page = [roots |-> <<>>, libraries |-> NoSlots, ads |-> NoSlots]
    /\ ran = {}
    /\ rendered = NoCensus
    /\ static = NoCensus

\* The rendered census counts the page.
RenderedCensus ==
    /\ "rendered" \notin ran
    /\ rendered' = RenderedCounts(page)
    /\ ran' = ran \cup {"rendered"}
    /\ UNCHANGED <<page, static, notDom>>

\* The static census counts the page.
StaticCensus ==
    /\ "static" \notin ran
    /\ static' = buildAspPerfCounts(page)
    /\ ran' = ran \cup {"static"}
    /\ UNCHANGED <<page, rendered, notDom>>

\* ------------------------------------------------------- the HTTP server

\* A URL text: the characters before its first ":" (none when it has no
\* scheme) and what follows the "//".
UrlText(scheme, host) == [scheme |-> scheme, host |-> host]

EmptyString == UrlText(<<>>, "")
NotAUrl == UrlText(<<>>, "not a url")
HttpX == UrlText(<<"h", "t", "t", "p">>, "x")
HttpsX == UrlText(<<"h", "t", "t", "p", "s">>, "x")
UpperHttpX == UrlText(<<"H", "T", "T", "P">>, "x")
FtpX == UrlText(<<"f", "t", "p">>, "x")
HttpxX == UrlText(<<"h", "t", "t", "p", "x">>, "x")
HttpNoHost == UrlText(<<"h", "t", "t", "p">>, "")

UrlTexts == {EmptyString, NotAUrl, HttpX, HttpsX, UpperHttpX, FtpX, HttpxX, HttpNoHost}

\* req.query.url when the query has no url parameter.
Undefined == UrlText(<<>>, "undefined")

\* a || b on texts: the first that is neither undefined nor empty.
OrElse(a, b) == IF a \in {Undefined, EmptyString} THEN b ELSE a

Lower(ch) ==
    CASE ch = "H" -> "h"
      [] ch = "T" -> "t"
      [] ch = "P" -> "p"
      [] OTHER -> ch

\* The schemes whose URLs need a host.
SpecialSchemes ==
    { <<"h", "t", "t", "p">>, <<"h", "t", "t", "p", "s">>, <<"f", "t", "p">> }

\* new URL(target): it throws on a text without a scheme and on a special
\* scheme without a host; protocol is the lower-cased scheme and a colon.
ParseUrl(t) ==
    LET scheme == [k \in 1..Len(t.scheme) |-> Lower(t.scheme[k])]
    IN  IF scheme = <<>> \/ (scheme \in SpecialSchemes /\ t.host = "")
          THEN [ok |-> FALSE, protocol |-> <<>>]
        ELSE [ok |-> TRUE, protocol |-> scheme \o <<":">>]

\* protocol.startsWith("http")
StartsWithHttp(protocol) ==
    /\ Len(protocol) >= 4
    /\ SubSeq(protocol, 1, 4) = <<"h", "t", "t", "p">>

\* ["http:", "https:"].includes(protocol)
IsHttpOrHttps(protocol) ==
    protocol \in { <<"h", "t", "t", "p", ":">>, <<"h", "t", "t", "p", "s", ":">> }

\* The bodies of POST /api/recommendations: apiKey is missing, the empty
\* text, a text or a number; audit is missing or an object with or without
\* scores and each of the four URL fields.
Audits ==
    [present : {FALSE}, scores : {FALSE}, finalUrl : {FALSE}, targetUrl : {FALSE},
     requestedUrl : {FALSE}, url : {FALSE}]
    \cup
    [present : {TRUE}, scores : BOOLEAN, finalUrl : BOOLEAN, targetUrl : BOOLEAN,
     requestedUrl : BOOLEAN, url : BOOLEAN]

NoAudit ==
    [present |-> FALSE, scores |-> FALSE, finalUrl |-> FALSE, targetUrl |-> FALSE,
     requestedUrl |-> FALSE, url |-> FALSE]

Bodies ==
    [parses : {TRUE}, apiKey : {"missing", "empty", "text", "number"}, audit : Audits]
    \cup
    [parses : {FALSE}, apiKey : {"missing"}, audit : {NoAudit}]

NoBody == [parses |-> TRUE, apiKey |-> "missing", audit |-> NoAudit]

Origins == {"none", "allowed", "other"}

Request(method, path, origin, url, body) ==
    [method |-> method, path |-> path, origin |-> origin, url |-> url, body |-> body]

Requests ==
    { Request("GET", path, origin, url, NoBody) :
        path \in {"/api/audit", "/api/asp-recommendations"},
        origin \in Origins, url \in UrlTexts \cup {Undefined} }
    \cup
    { Request("POST", "/api/recommendations", origin, Undefined, body) :
        origin \in Origins, body \in Bodies }
    \cup
    { Request(method, path, origin, Undefined, NoBody) :
        method \in {"GET", "OPTIONS"},
        path \in {"/api/ping", "/health", "/elsewhere"}, origin \in Origins }

NoRequest == Request("none", "none", "none", Undefined, NoBody)

\* A response: its status and its body, which is JSON with an error text
\* ("error"), other JSON ("json"), the text of an upstream answer passed on
\* ("raw"), the page of the framework's own error handler ("html"), or
\* nothing.
Response(code, body) == [status |-> code, body |-> body]

NoResponse == Response(0, "none")

\* process.env: whether PSI_API_KEY is set, and TARGET_URL || "".
Envs == [psiKey : BOOLEAN, targetUrl : {EmptyString, HttpsX, FtpX}]

\* What a handler has done when it returns or reaches its first await.
Reached(pc, answer, made) == [pc |-> pc, response |-> answer, calls |-> made]

Responds(code, body) == Reached("responded", Response(code, body), {})

\* (req.query.url || TARGET_URL || "").toString()
Target(e, r) == OrElse(OrElse(r.url, e.targetUrl), EmptyString)

\* GET /api/audit with the URL validated before the credential is looked at.
AuditHandlerUrlFirst(e, r) ==
    IF ~ParseUrl(Target(e, r)).ok THEN Responds(400, "error")
    ELSE IF ~StartsWithHttp(ParseUrl(Target(e, r)).protocol) THEN Responds(400, "error")
    ELSE IF ~e.psiKey THEN Responds(500, "error")
    ELSE Reached("psi", NoResponse, {"psi"})

\* GET /api/audit up to its await of the page-speed fetch.
AuditHandler(e, r) ==
    IF ~e.psiKey THEN Responds(500, "error")
    ELSE IF ~ParseUrl(Target(e, r)).ok THEN Responds(400, "error")
    ELSE IF ~StartsWithHttp(ParseUrl(Target(e, r)).protocol) THEN Responds(400, "error")
    ELSE Reached("psi", NoResponse, {"psi"})

\* GET /api/asp-recommendations with the parse as its only validation.
AspHandlerAnyScheme(e, r) ==
    IF ~ParseUrl(Target(e, r)).ok THEN Responds(400, "error")
    ELSE Reached("census", NoResponse, {"browser"})

\* GET /api/asp-recommendations up to its await of getRenderedAspCounts.
AspHandler(e, r) ==
    IF ~ParseUrl(Target(e, r)).ok THEN Responds(400, "error")
    ELSE IF ~IsHttpOrHttps(ParseUrl(Target(e, r)).protocol) THEN Responds(400, "error")
    ELSE Reached("census", NoResponse, {"browser"})

\* audit.finalUrl || audit.targetUrl || audit.requestedUrl || audit.url
HasPageUrl(audit) == audit.finalUrl \/ audit.targetUrl \/ audit.requestedUrl \/ audit.url

\* POST /api/recommendations up to its await of fetchPageHtml.
RecommendationsHandler(r) ==
    IF r.body.apiKey # "text" THEN Responds(400, "error")
    ELSE IF ~r.body.audit.present THEN Responds(400, "error")
    ELSE IF ~HasPageUrl(r.body.audit) THEN Responds(400, "error")
    ELSE Reached("html", NoResponse, {"html"})

\* The middlewares in their order (cors, the OPTIONS short cut,
\* express.json), the route of the request, and the 404 handler; an error
\* a middleware passes to next() is answered by the framework's own error
\* handler.
Serve(e, r) ==
    IF r.origin = "other" THEN Responds(500, "html")
    ELSE IF r.method = "OPTIONS" THEN Responds(204, "none")
    ELSE IF ~r.body.parses THEN Responds(400, "html")
    ELSE IF r.method = "GET" /\ r.path \in {"/api/ping", "/health"} THEN Responds(200, "json")
    ELSE IF r.method = "GET" /\ r.path = "/api/audit" THEN AuditHandler(e, r)
    ELSE IF r.method = "POST" /\ r.path = "/api/recommendations" THEN RecommendationsHandler(r)
    ELSE IF r.method = "GET" /\ r.path = "/api/asp-recommendations" THEN AspHandler(e, r)
    ELSE Responds(404, "error")

ApiInit ==
    /\ env \in Envs
    /\ req = NoRequest
    /\ apiPc = "idle"
    /\ response = NoResponse
    /\ calls = {}

ApiIdle ==
    /\ env = [psiKey |-> FALSE, targetUrl |-> EmptyString]
    /\ req = NoRequest
    /\ apiPc = "idle"
    /\ response = NoResponse
    /\ calls = {}

\* A request arrives and is served up to its response or its first await.
Receive ==
    /\ apiPc = "idle"
    /\ \E r \in Requests :
         /\ req' = r
         /\ apiPc' = Serve(env, r).pc
         /\ response' = Serve(env, r).response
         /\ calls' = Serve(env, r).calls
    /\ UNCHANGED <<env, notApi>>

Respond(code, body) ==
    /\ apiPc' = "responded"
    /\ response' = Response(code, body)

\* The page-speed fetch settles: it rejects or its body is not JSON (the
\* catch block), it answers with a non-2xx status, with a 2xx answer that
\* has no categories, or with a complete one.
PsiSettles ==
    /\ apiPc = "psi"
    /\ \/ Respond(500, "error")
       \/ \E code \in {400, 429, 500} : Respond(code, "error")
       \/ Respond(200, "json")
    /\ UNCHANGED <<env, req, calls, notApi>>

\* getRenderedAspCounts settles: it throws (the catch block) or returns.
AspCensusSettles ==
    /\ apiPc = "census"
    /\ \/ Respond(500, "error")
       \/ Respond(200, "json")
    /\ UNCHANGED <<env, req, calls, notApi>>

\* fetchPageHtml settles: it throws (the catch block), or it returns and
\* the handler calls the LLM API.
HtmlSettles ==
    /\ apiPc = "html"
    /\ \/ Respond(500, "error") /\ UNCHANGED calls
       \/ /\ apiPc' = "llm"
          /\ calls' = calls \cup {"llm"}
          /\ UNCHANGED response
    /\ UNCHANGED <<env, req, notApi>>

\* The outbound calls made with a time limit: fetchPageHtml aborts its fetch
\* after timeoutMs, page.goto of the census is given timeout: 90000 and each
\* size probe its own abort timer; the page-speed fetch and the LLM fetch
\* are given no signal.
HasTimeout(call) == call \in {"html", "census"}

\* The time limit of the awaited call runs out: the call is aborted, the
\* await throws and the catch block of the handler answers.
CallTimesOut ==
    /\ apiPc \in {"psi", "census", "html", "llm"}
    /\ HasTimeout(apiPc)
    /\ Respond(500, "error")
    /\ UNCHANGED <<env, req, calls, notApi>>

\* The LLM fetch settles: it rejects or its 2xx body is not JSON (the
\* catch block), it answers with a non-2xx status, whose body is sent on
\* as it is, or with a 2xx answer.
LlmSettles ==
    /\ apiPc = "llm"
    /\ \/ Respond(500, "error")
       \/ \E code \in {401, 429, 500} : Respond(code, "raw")
       \/ Respond(200, "json")
    /\ UNCHANGED <<env, req, calls, notApi>>

\* ------------------------------------- the size probes of all sections

SecIdle ==
    /\ secPc = "idle"
    /\ secUrls = <<>>
    /\ secLeft = <<>>
    /\ secOut = <<>>

\* The image URLs of the sections of a page: at least one section.
SectionUrlCounts ==
    UNION { [1..n -> 0..MaxUrls] : n \in 1..MaxSections }

\* The probes a call of getTopImagesForUrls starts before its first await:
\* one per worker of its pool.
StartedAtOnce(count) ==
    Min2(PoolSize(Concurrency, Min2(MaxToCheck, count)), Min2(MaxToCheck, count))

\* await Promise.all(counts.sections.breakdown.map(async (section) => ...)):
\* the callback of every section runs up to its await of
\* getTopImagesForUrls, which has started the workers of its own pool.
SectionsStart ==
    /\ secPc = "idle"
    /\ \E counted \in SectionUrlCounts :
         /\ secUrls' = counted
         /\ secOut' = [k \in 1..Len(counted) |-> StartedAtOnce(counted[k])]
         /\ secLeft' = [k \in 1..Len(counted) |->
                          Min2(MaxToCheck, counted[k]) - StartedAtOnce(counted[k])]
    /\ secPc' = "probing"
    /\ UNCHANGED notSec

\* A probe of section k settles; its worker starts the next probe of the
\* section, if one is left.
SectionProbeSettles(k) ==
    /\ secPc = "probing"
    /\ k <= Len(secOut)
    /\ secOut[k] > 0
    /\ IF secLeft[k] > 0
         THEN /\ secLeft' = [secLeft EXCEPT ![k] = secLeft[k] - 1]
              /\ UNCHANGED secOut
         ELSE /\ secOut' = [secOut EXCEPT ![k] = secOut[k] - 1]
              /\ UNCHANGED secLeft
    /\ UNCHANGED <<secPc, secUrls, notSec>>

\* Promise.all resolves: every section has its topImages.
SectionsResolve ==
    /\ secPc = "probing"
    /\ \A k \in 1..Len(secOut) : secOut[k] = 0
    /\ secPc' = "done"
    /\ UNCHANGED <<secUrls, secLeft, secOut, notSec>>

\* ------------------------------------------ the dashboard (App and hooks)

\* The two versions of useRecommendations in the repository.
Hooks == {"part_003", "hooks"}

\* Texts of the key input, and String.prototype.trim on them.
KeyTexts == {"", " ", "sk"}

Trim(text) == IF text = " " THEN "" ELSE text

\* A request without an apiKey property, and one that has it.
NoKey == <<>>
WithKey(key) == <<key>>

NoFlight == [path |-> "none", apiKey |-> NoKey, audit |-> 0]

DashIdle ==
    /\ hook = "hooks"
    /\ auditRuns = 0
    /\ shownAudit = 0
    /\ auditBusy = FALSE
    /\ openAiKey = ""
    /\ aiRunning = FALSE
    /\ aiText = 0
    /\ extracted = 0
    /\ suggestedKeywords = 0
    /\ aiError = ""
    /\ flight = NoFlight
    /\ sent = {}
    /\ forwarded = {}

\* The dashboard is mounted with one of the two hooks.
DashInit ==
    /\ hook \in Hooks
    /\ auditRuns = 0
    /\ shownAudit = 0
    /\ auditBusy = FALSE
    /\ openAiKey = ""
    /\ aiRunning = FALSE
    /\ aiText = 0
    /\ extracted = 0
    /\ suggestedKeywords = 0
    /\ aiError = ""
    /\ flight = NoFlight
    /\ sent = {}
    /\ forwarded = {}

\* onChange={(e) => setOpenAiKey(e.target.value)}
SetOpenAiKey(text) ==
    /\ text # openAiKey
    /\ openAiKey' = text
    /\ UNCHANGED <<hook, auditRuns, shownAudit, auditBusy, aiRunning, aiText, extracted,
                   suggestedKeywords, aiError, flight, sent, forwarded, notDash>>

\* The two GET requests of runAudit.
AuditRequests ==
    { [path |-> "/api/audit", apiKey |-> NoKey, audit |-> 0],
      [path |-> "/api/asp-recommendations", apiKey |-> NoKey, audit |-> 0] }

\* handleRunAudit, up to the await inside runAudit: clearRecommendations(),
\* then the setters and the two fetch calls of runAudit. The button is
\* disabled while isRunning, and only then.
handleRunAudit ==
    /\ ~auditBusy
    /\ auditRuns < MaxAudits
    /\ aiText' = 0
    /\ extracted' = 0
    /\ suggestedKeywords' = 0
    /\ aiError' = ""
    /\ auditRuns' = auditRuns + 1
    /\ auditBusy' = TRUE
    /\ shownAudit' = 0
    /\ sent' = sent \cup AuditRequests
    /\ UNCHANGED <<hook, openAiKey, aiRunning, flight, forwarded, notDash>>

\* runAudit settles: psiAudit is the result of this run, or stays null.
RunAuditSettles ==
    /\ auditBusy
    /\ auditBusy' = FALSE
    /\ shownAudit' \in {0, auditRuns}
    /\ UNCHANGED <<hook, auditRuns, openAiKey, aiRunning, aiText, extracted,
                   suggestedKeywords, aiError, flight, sent, forwarded, notDash>>

\* The body of the POST to /api/recommendations.
RecommendationsBody ==
    [path |-> "/api/recommendations",
     apiKey |-> WithKey(IF hook = "part_003" THEN Trim(openAiKey) ELSE openAiKey),
     audit |-> shownAudit]

\* handleRecommendations, up to the await of the fetch in getRecommendations.
\* The button is disabled while aiRunning. The earlier hook clears the output
\* and refuses a null audit or a blank key before it sends anything.
handleRecommendations ==
    /\ ~aiRunning
    /\ IF hook = "part_003"
         THEN /\ aiText' = 0
              /\ extracted' = 0
              /\ suggestedKeywords' = 0
         ELSE UNCHANGED <<aiText, extracted, suggestedKeywords>>
    /\ IF hook = "part_003" /\ shownAudit = 0
         THEN /\ aiError' = "Run an audit first."
              /\ UNCHANGED <<aiRunning, flight, sent>>
       ELSE IF hook = "part_003" /\ Trim(openAiKey) = ""
         THEN /\ aiError' = "Enter your OpenAI API key."
              /\ UNCHANGED <<aiRunning, flight, sent>>
       ELSE /\ aiError' = ""
            /\ aiRunning' = TRUE
            /\ flight' = RecommendationsBody
            /\ sent' = sent \cup {RecommendationsBody}
    /\ UNCHANGED <<hook, auditRuns, shownAudit, auditBusy, openAiKey, forwarded, notDash>>

\* POST /api/recommendations refuses a body without a non-empty apiKey or
\* without an audit; else it calls the LLM.
CallsLlm(body) == body.apiKey \notin {NoKey, WithKey("")} /\ body.audit # 0

\* How the fetch of getRecommendations can settle: it rejects, or the
\* backend answers; only a request the backend passes on with a key that is
\* not blank can be answered ok.
FlightOutcomes(body) ==
    IF CallsLlm(body) /\ Trim(body.apiKey[1]) # ""
      THEN {"rejected", "not ok", "ok"}
      ELSE {"rejected", "not ok"}

\* getRecommendations after its await: a response that is ok is stored in
\* aiText, extracted and suggestedKeywords, anything else in error; finally
\* aiRunning is reset. The backend has put the key in its request to the LLM
\* whenever it got as far as calling it.
RecommendationsSettle(outcome) ==
    /\ flight # NoFlight
    /\ outcome \in FlightOutcomes(flight)
    /\ forwarded' = IF outcome # "rejected" /\ CallsLlm(flight)
                      THEN forwarded \cup {flight.apiKey[1]}
                      ELSE forwarded
    /\ IF outcome = "ok"
         THEN /\ aiText' = flight.audit
              /\ extracted' = flight.audit
              /\ suggestedKeywords' = flight.audit
              /\ UNCHANGED aiError
         ELSE /\ aiError' = outcome
              /\ UNCHANGED <<aiText, extracted, suggestedKeywords>>
    /\ aiRunning' = FALSE
    /\ flight' = NoFlight
    /\ UNCHANGED <<hook, auditRuns, shownAudit, auditBusy, openAiKey, sent, notDash>>

\* ------------------------------------- getCarouselRoots on nested elements

\* The class attributes of an element that matter to getCarouselRoots: none
\* of the marker classes, one of them, or two of them on the same element
\* (Slick adds slick-slider to the element it is started on).
ClassSets ==
    { {}, {"w-icatcher-slider"}, {"slick-slider"},
      {"w-icatcher-slider", "slick-slider"}, {"w-icatcher-slider", "w-testimonials"},
      {"swiper", "swiper-container"} }

\* other.contains(el): el is other or a descendant of it. The document is 0.
RECURSIVE Contains(_, _, _)
Contains(parent, other, el) ==
    IF el = 0 THEN other = 0
    ELSE other = el \/ Contains(parent, other, parent[el])

\* The elements are numbered in document order: the parent of an element is
\* the document, the element before it, or an ancestor of that one.
TreesOf(n) ==
    { parent \in [1..n -> 0..n] :
        \A k \in 1..n : /\ parent[k] < k
                        /\ k > 1 => Contains(parent, parent[k], k - 1) }

Documents ==
    UNION { { [parent |-> parent, classes |-> classes] :
                parent \in TreesOf(n), classes \in [1..n -> ClassSets] } :
            n \in 0..MaxNodes }

NoDocument == [parent |-> <<>>, classes |-> <<>>]

\* Array.from(root.querySelectorAll(sel)): the descendants of root that carry
\* one of the classes of the selector, in document order, each once.
qsa(doc, sel, root) ==
    SelectSeq([k \in 1..Len(doc.parent) |-> k],
              LAMBDA el : /\ el # root
                          /\ Contains(doc.parent, root, el)
                          /\ doc.classes[el] \cap sel # {})

InSeq(seq, el) == \E i \in 1..Len(seq) : seq[i] = el

\* Array.from(new Set(list)): the first occurrence of every element.
RECURSIVE Unique(_)
Unique(list) ==
    IF list = <<>> THEN <<>>
    ELSE LET before == Unique(SubSeq(list, 1, Len(list) - 1))
             last == list[Len(list)]
         IN  IF InSeq(before, last) THEN before ELSE Append(before, last)

aspRoots(doc, root) ==
    qsa(doc, {"w-icatcher-slider"}, root) \o qsa(doc, {"w-testimonials"}, root)

isInsideAspRoot(doc, root, el) ==
    \E i \in 1..Len(aspRoots(doc, root)) :
        /\ aspRoots(doc, root)[i] # el
        /\ Contains(doc.parent, aspRoots(doc, root)[i], el)

genericRoots(doc, root) ==
    SelectSeq(qsa(doc, {"slick-slider"}, root) \o qsa(doc, {"swiper", "swiper-container"}, root),
              LAMBDA el : ~isInsideAspRoot(doc, root, el))

combined(doc, root) == Unique(aspRoots(doc, root) \o genericRoots(doc, root))

\* getCarouselRoots without its last filter.
getCarouselRootsCombined(doc, root) == combined(doc, root)

\* getCarouselRoots(scope) on a document whose elements nest.
getCarouselRootsIn(doc, root) ==
    SelectSeq(combined(doc, root),
              LAMBDA el : ~\E i \in 1..Len(combined(doc, root)) :
                             /\ combined(doc, root)[i] # el
                             /\ Contains(doc.parent, combined(doc, root)[i], el))

RootsIdle ==
    /\ tree = NoDocument
    /\ scope = 0
    /\ found = <<>>
    /\ rootsPc = "idle"

RootsInit ==
    /\ tree \in Documents
    /\ scope \in 0..Len(tree.parent)
    /\ found = <<>>
    /\ rootsPc = "idle"

\* A call of getCarouselRoots(scope).
FindCarouselRoots ==
    /\ rootsPc = "idle"
    /\ found' = getCarouselRootsIn(tree, scope)
    /\ rootsPc' = "done"
    /\ UNCHANGED <<tree, scope, notRoots>>

\* ------------------------------------------------------------ specifications

ScoreNext == Score

InitScore == ScoreInit /\ AuditIdle /\ CensusIdle /\ ProbeIdle /\ PoolIdle /\ DomIdle /\ ApiIdle /\ SecIdle /\ DashIdle /\ RootsIdle

SpecScore == InitScore /\ [][ScoreNext]_vars

AuditNext ==
    \/ RunAuditStart
    \/ PsiFetchSettles
    \/ DomFetchSettles
    \/ RunAuditFetchRejected
    \/ RunAuditSettle

InitAudit == ScoreIdle /\ AuditIdle /\ CensusIdle /\ ProbeIdle /\ PoolIdle /\ DomIdle /\ ApiIdle /\ SecIdle /\ DashIdle /\ RootsIdle

SpecAudit == InitAudit /\ [][AuditNext]_vars

CensusNext ==
    \E c \in Calls :
      \/ Launch(c)
      \/ Connect(c)
      \/ NewPage(c)
      \/ SetViewport(c)
      \/ SetUserAgent(c)
      \/ Goto(c)
      \/ Scroll(c)
      \/ Evaluate(c)
      \/ ProbeImages(c)
      \/ ClosePage(c)
      \/ Disconnect(c)
      \/ Kill(c)

InitCensus == ScoreIdle /\ AuditIdle /\ CensusIdle /\ ProbeIdle /\ PoolIdle /\ DomIdle /\ ApiIdle /\ SecIdle /\ DashIdle /\ RootsIdle

SpecCensus == InitCensus /\ [][CensusNext]_vars

ProbeNext ==
    \/ ProbeStart
    \/ ProbeTimeout
    \/ HeadSettles
    \/ RangeSettles
    \/ BodySettles

InitProbe == ScoreIdle /\ AuditIdle /\ CensusIdle /\ ProbeIdle /\ PoolIdle /\ DomIdle /\ ApiIdle /\ SecIdle /\ DashIdle /\ RootsIdle

SpecProbe == InitProbe /\ [][ProbeNext]_vars

PoolNext ==
    \/ TopImagesStart
    \/ \E w \in WorkerIds : MapperSettles(w)
    \/ TopImagesResolve

InitPool == ScoreIdle /\ AuditIdle /\ CensusIdle /\ ProbeIdle /\ PoolIdle /\ DomIdle /\ ApiIdle /\ SecIdle /\ DashIdle /\ RootsIdle

SpecPool == InitPool /\ [][PoolNext]_vars

DomNext == RenderedCensus \/ StaticCensus

InitDom == ScoreIdle /\ AuditIdle /\ CensusIdle /\ ProbeIdle /\ PoolIdle /\ DomInit /\ ApiIdle /\ SecIdle /\ DashIdle /\ RootsIdle

SpecDom == InitDom /\ [][DomNext]_vars

ApiNext ==
    \/ Receive
    \/ PsiSettles
    \/ AspCensusSettles
    \/ HtmlSettles
    \/ LlmSettles
    \/ CallTimesOut

InitApi == ScoreIdle /\ AuditIdle /\ CensusIdle /\ ProbeIdle /\ PoolIdle /\ DomIdle /\ ApiInit /\ SecIdle /\ DashIdle /\ RootsIdle

SpecApi == InitApi /\ [][ApiNext]_vars

SecNext ==
    \/ SectionsStart
    \/ \E k \in 1..MaxSections : SectionProbeSettles(k)
    \/ SectionsResolve

InitSec == ScoreIdle /\ AuditIdle /\ CensusIdle /\ ProbeIdle /\ PoolIdle /\ DomIdle /\ ApiIdle /\ SecIdle /\ DashIdle /\ RootsIdle

SpecSec == InitSec /\ [][SecNext]_vars

DashNext ==
    \/ \E text \in KeyTexts : SetOpenAiKey(text)
    \/ handleRunAudit
    \/ RunAuditSettles
    \/ handleRecommendations
    \/ \E outcome \in {"rejected", "not ok", "ok"} : RecommendationsSettle(outcome)

InitDash == ScoreIdle /\ AuditIdle /\ CensusIdle /\ ProbeIdle /\ PoolIdle /\ DomIdle /\ ApiIdle /\ SecIdle /\ DashInit /\ RootsIdle

SpecDash == InitDash /\ [][DashNext]_vars

RootsNext == FindCarouselRoots

InitRoots == ScoreIdle /\ AuditIdle /\ CensusIdle /\ ProbeIdle /\ PoolIdle /\ DomIdle /\ ApiIdle /\ SecIdle /\ DashIdle /\ RootsInit

SpecRoots == InitRoots /\ [][RootsNext]_vars

\* ------------------------------------------------------ scoring properties

Scored == scorePc = "scored"

Findings == scoreResult.findings
Recs == scoreResult.recommendations

Dimensions ==
    {"sections", "carousels", "carouselSlides", "testimonials", "libraries",
     "images", "videos", "iframes", "adSpace"}

RECURSIVE SumPoints(_)
SumPoints(fs) == IF fs = <<>> THEN 0 ELSE Head(fs).points + SumPoints(Tail(fs))

\* The findings of a key, as the set of their positions.
FindingsOf(key) == { i \in 1..Len(Findings) : Findings[i].key = key }

NonGood == { i \in 1..Len(Findings) : Findings[i].severity # "good" }

\* Every dimension in the tier with its largest deduction (threshold table).
AllWorst(c) ==
    /\ c.sections > 24
    /\ c.carousels.count >= 3
    /\ c.carousels.slidesTotal > 24
    /\ (c.testimonials.count >= 3 \/ c.testimonials.itemsTotal > 18)
    /\ c.libraries.typesTotal >= 4
    /\ c.media.images > 60
    /\ c.media.videos >= 5
    /\ c.media.iframes >= 4
    /\ c.adSpace.total >= 5

\* Every dimension but sections below its warn trigger (threshold table).
OthersGood(c) ==
    /\ c.carousels.count < 2
    /\ c.carousels.slidesTotal <= 16
    /\ c.testimonials.count < 3 /\ c.testimonials.itemsTotal <= 18
    /\ c.libraries.containers <= 1 /\ c.libraries.typesTotal < 3
    /\ c.media.images <= 40
    /\ c.media.videos < 3
    /\ c.media.iframes < 2
    /\ c.adSpace.total < 3

\* C1: the overall score is 100 plus the sum of the points of all findings,
\* clamped once to [0,100]; it is never below 0 or above 100, and it is 0
\* when every dimension is at its worst tier.
C1_ScoreIsClampedSum ==
    Scored =>
      LET naive == 100 + SumPoints(Findings)
      IN  /\ scoreResult.overall.score \in 0..100
          /\ scoreResult.overall.score =
               (IF naive < 0 THEN 0 ELSE IF naive > 100 THEN 100 ELSE naive)
          /\ AllWorst(counts) => naive = 100 - 113 /\ scoreResult.overall.score = 0

C1_Witness ==
    /\ Scored
    /\ AllWorst(counts)
    /\ 100 + SumPoints(Findings) < 0
    /\ scoreResult.overall.score = 0

\* C2: scoreAspCounts returns exactly 9 findings, exactly one for each of
\* the nine dimensions, whatever tier the dimension falls in.
C2_NineFindings ==
    Scored =>
      /\ Len(Findings) = 9
      /\ \A d \in Dimensions : Cardinality(FindingsOf(d)) = 1

\* C3: the recommendations correspond one to one to the findings whose
\* severity is not good: as many recommendations as non-good findings, each
\* carrying the key of one of them, none dropped and none repeated.
C3_RecsMatchNonGood ==
    Scored =>
      /\ Len(Recs) = Cardinality(NonGood)
      /\ \A i \in 1..Len(Recs) : \E j \in NonGood : Findings[j].key = Recs[i].key
      /\ \A j \in NonGood : \E i \in 1..Len(Recs) : Recs[i].key = Findings[j].key
      /\ \A i, k \in 1..Len(Recs) : Recs[i].key = Recs[k].key => i = k

C3_Witness ==
    /\ Scored
    /\ Cardinality(NonGood) >= 2
    /\ Cardinality(NonGood) < Len(Findings)
    /\ Len(Recs) = Cardinality(NonGood)

\* The points of the finding a recommendation was made from.
PointsOfRec(i) ==
    LET j == CHOOSE j \in 1..Len(Findings) : Findings[j].key = Recs[i].key
    IN  Findings[j].points

RecIndex(key) == { i \in 1..Len(Recs) : Recs[i].key = key }

\* C4: the recommendations are ordered by ascending points of their
\* findings (most negative first); an iframes finding at -15 precedes an
\* images finding at -7.
C4_RecsAscending ==
    Scored =>
      /\ \A i \in 1..(Len(Recs) - 1) : PointsOfRec(i) <= PointsOfRec(i + 1)
      /\ (/\ \E j \in FindingsOf("iframes") : Findings[j].points = -15
          /\ \E j \in FindingsOf("images") : Findings[j].points = -7)
         => \E i \in RecIndex("iframes") : \E k \in RecIndex("images") : i < k

C4_Witness ==
    /\ Scored
    /\ \E j \in FindingsOf("iframes") : Findings[j].points = -15
    /\ \E j \in FindingsOf("images") : Findings[j].points = -7
    /\ \E i \in RecIndex("iframes") : \E k \in RecIndex("images") : i < k
    /\ Len(Recs) >= 3

\* The finding of a key has this severity and these points.
FindingIs(key, severity, points) ==
    /\ FindingsOf(key) # {}
    /\ \A j \in FindingsOf(key) :
         Findings[j].severity = severity /\ Findings[j].points = points

\* C5: sections <= 16 gives a good finding with 0 points, 17..24 a warn
\* finding with -10, >= 25 a bad finding with -18; with every other
\* dimension in its good tier the overall score is 100, 90 and 82.
C5_SectionsLadder ==
    Scored =>
      /\ counts.sections <= 16 =>
           /\ FindingIs("sections", "good", 0)
           /\ OthersGood(counts) => scoreResult.overall.score = 100
      /\ (counts.sections >= 17 /\ counts.sections <= 24) =>
           /\ FindingIs("sections", "warn", -10)
           /\ OthersGood(counts) => scoreResult.overall.score = 90
      /\ counts.sections >= 25 =>
           /\ FindingIs("sections", "bad", -18)
           /\ OthersGood(counts) => scoreResult.overall.score = 82

C5_Witness ==
    /\ Scored
    /\ counts.sections = 24
    /\ OthersGood(counts)
    /\ FindingIs("sections", "warn", -10)
    /\ scoreResult.overall.score = 90

\* C6: images <= 40 gives severity good with 0 points, 41..60 severity warn
\* with -7, and every count above 60 severity bad with -12.
C6_ImagesLadder ==
    Scored =>
      /\ counts.media.images <= 40 => FindingIs("images", "good", 0)
      /\ (counts.media.images >= 41 /\ counts.media.images <= 60) =>
           FindingIs("images", "warn", -7)
      /\ counts.media.images > 60 => FindingIs("images", "bad", -12)

\* C7 as stated: iframes <= 1 gives severity good with 0 points, 2..3
\* severity warn with -8, and every count >= 4 severity bad with -15.
C7_IframesLadderAsStated ==
    Scored =>
      /\ counts.media.iframes <= 1 => FindingIs("iframes", "good", 0)
      /\ (counts.media.iframes >= 2 /\ counts.media.iframes <= 3) =>
           FindingIs("iframes", "warn", -8)
      /\ counts.media.iframes >= 4 => FindingIs("iframes", "bad", -15)

\* C7 (amended): iframes <= 1 gives severity good with 0 points, 2..3
\* severity warn with -8, and every count >= 4 gives -15 points, with
\* severity warn for 4..5 and severity bad from 6 on.
C7_IframesLadder ==
    Scored =>
      /\ counts.media.iframes <= 1 => FindingIs("iframes", "good", 0)
      /\ (counts.media.iframes >= 2 /\ counts.media.iframes <= 3) =>
           FindingIs("iframes", "warn", -8)
      /\ (counts.media.iframes >= 4 /\ counts.media.iframes <= 5) =>
           FindingIs("iframes", "warn", -15)
      /\ counts.media.iframes >= 6 => FindingIs("iframes", "bad", -15)

C7_Witness ==
    /\ Scored
    /\ counts.media.iframes = 4
    /\ FindingIs("iframes", "warn", -15)

\* ----------------------------------------------------- useAudit properties

\* runAudit has run and has settled.
AuditSettled == runs > 0 /\ ~isRunning

Succeeded(res) == res.state = "fulfilled" /\ res.ok /\ res.body = "json"
Failed(res) == res.state = "fulfilled" /\ ~res.ok /\ res.body # "unreadable"

\* C9: when the page-speed call fails while the DOM census succeeds, the
\* settled run still exposes the DOM census result and reports the
\* page-speed half as an error; symmetrically a DOM census failure does not
\* discard a successful page-speed result.
C9_PartialFailureKeepsOther ==
    AuditSettled =>
      /\ (Failed(psiRes) /\ Succeeded(domRes)) => (domAudit # Null /\ error # "")
      /\ (Failed(domRes) /\ Succeeded(psiRes)) => (psiAudit # Null /\ error # "")

\* ------------------------------------------------------- census properties

Launched(c) == chromeProc[c] # "none"

\* C10: once Chrome has been launched it is released on every exit path:
\* when the call settles, by return or by a throw of any step, chrome.kill
\* has been invoked, browser.disconnect has been invoked exactly when a
\* connection was made, and a failing disconnect does not prevent the kill.
C10_ChromeReleased ==
    \A c \in Calls :
      (censusPc[c] = "settled" /\ Launched(c)) =>
        /\ kills[c] # "none"
        /\ browser[c] <=> disconnects[c] # "none"
        /\ disconnects[c] = "failed" => kills[c] # "none"

C10_Witness ==
    \E c \in Calls :
      /\ censusPc[c] = "settled"
      /\ Launched(c)
      /\ thrown[c]
      /\ disconnects[c] = "failed"
      /\ kills[c] = "done"

\* -------------------------------------------------- size probe properties

ProbeSettled == probePc \in {"returned", "threw"}

\* C14: getRemoteSizeBytes always settles with a value, an integer byte
\* count or null when the probe fails; it never propagates a failure to its
\* caller as an exception.
C14_ProbeNeverThrows ==
    ProbeSettled => probePc = "returned"

\* ----------------------------------------------------- size probe pool

PoolDone == poolPc = "done"

UrlsOf(es) == { es[k].url : k \in 1..Len(es) }

ProbedAs(how) == { u \in 1..Len(probed) : probed[u] = how }

\* C13: a size probe that fails affects only its own URL: the other URLs
\* of the list are still probed, mapWithConcurrency never rejects, and the
\* list it returns holds exactly the entries whose probe succeeded.
C13_FailuresAreIsolated ==
    /\ poolPc # "rejected"
    /\ PoolDone =>
         /\ \A k \in 1..Len(items) : probed[items[k]] # "none"
         /\ \A k \in 1..Len(mapped) : mapped[k].kind = "entry"
         /\ UrlsOf(mapped) = ProbedAs("ok")
         /\ Len(mapped) = Cardinality(ProbedAs("ok"))

C13_Witness ==
    /\ PoolDone
    /\ ProbedAs("failed") # {}
    /\ Cardinality(ProbedAs("ok")) >= 2
    /\ probed[1] = "failed"

Checked == { urls[k] : k \in 1..Min2(MaxToCheck, Len(urls)) }

Omitted == { k \in 1..Len(mapped) : mapped[k].url \notin UrlsOf(topImages) }

\* C15: getTopImagesForUrls returns at most topN entries, in non-increasing
\* order of bytes, all of them among the first maxToCheck URLs (no later
\* URL is probed); no successfully probed candidate it leaves out is larger
\* than one it returns; and it sorts only once every probe has settled.
C15_TopImagesAreTheLargest ==
    /\ \A u \in 1..Len(probed) : u \notin Checked => probed[u] = "none"
    /\ ~PoolDone => topImages = <<>>
    /\ PoolDone =>
         /\ \A w \in WorkerIds : workers[w].pc # "await"
         /\ \A k \in 1..Len(items) : probed[items[k]] # "none"
         /\ Len(topImages) = Min2(TopN, Len(mapped))
         /\ \A k \in 1..Len(topImages) - 1 : topImages[k].bytes >= topImages[k + 1].bytes
         /\ UrlsOf(topImages) \subseteq Checked \cap ProbedAs("ok")
         /\ \A k \in Omitted : \A j \in 1..Len(topImages) : mapped[k].bytes <= topImages[j].bytes

C15_Witness ==
    /\ PoolDone
    /\ Len(urls) > MaxToCheck
    /\ Len(mapped) > TopN
    /\ Omitted # {}
    /\ topImages[1].bytes > topImages[Len(topImages)].bytes
    /\ mapped[1].bytes < topImages[1].bytes

\* ------------------------------------------------------- DOM censuses

Reals(roots) == [k \in 1..Len(roots) |-> roots[k].real]

HasClones(roots) == \E k \in 1..Len(roots) : roots[k].clones > 0

C17_TestimonialItemsIgnoreClones ==
    /\ "rendered" \in ran =>
         /\ rendered.testimonials.itemsPerBlock = Reals(OfClass(page.roots, "w-testimonials"))
         /\ rendered.testimonials.itemsTotal = SumOf(Reals(OfClass(page.roots, "w-testimonials")))
    /\ "static" \in ran =>
         /\ static.testimonials.itemsPerBlock = Reals(OfClass(page.roots, "w-testimonials"))
         /\ static.testimonials.itemsTotal = SumOf(Reals(OfClass(page.roots, "w-testimonials")))

SumsHold(c) ==
    /\ c.adSpace.total = c.adSpace.slots.a + c.adSpace.slots.b + c.adSpace.slots.c + c.adSpace.slots.d
    /\ c.carousels.count = Len(c.carousels.slidesPerCarousel)
    /\ c.carousels.slidesTotal = SumOf(c.carousels.slidesPerCarousel)
    /\ c.libraries.typesTotal = c.libraries.types.a + c.libraries.types.b + c.libraries.types.c + c.libraries.types.d

\* C18: the counts of either census satisfy their sums on any page:
\* adSpace.total is the sum of the four slots, carousels.slidesTotal the sum
\* of slidesPerCarousel and carousels.count its length, libraries.typesTotal
\* the sum of the four types.
C18_TotalsAreSums ==
    /\ "rendered" \in ran => SumsHold(rendered) /\ rendered.adSpace.slots = page.ads /\ rendered.libraries.types = page.libraries
    /\ "static" \in ran => SumsHold(static) /\ static.adSpace.slots = page.ads /\ static.libraries.types = page.libraries

C18_Witness ==
    /\ ran = {"rendered", "static"}
    /\ page.ads.d = MaxSlots /\ page.ads.a = 0
    /\ rendered.adSpace.total >= 2
    /\ static.adSpace.total = rendered.adSpace.total
    /\ rendered.libraries.typesTotal >= 2
    /\ rendered.carousels.count = 2
    /\ rendered.carousels.slidesTotal > static.carousels.slidesTotal
    /\ static.carousels.slidesTotal > 0

\* ---------------------------------------------------------- HTTP server

\* The request has passed the middlewares and reached the handler of a route.
Handled(method, path) ==
    /\ req.method = method
    /\ req.path = path
    /\ req.origin # "other"
    /\ req.body.parses

\* The URL texts that are absolute with scheme http or https.
HttpUrls == {HttpX, HttpsX, UpperHttpX}

Refused == response = Response(400, "error") /\ calls = {}

\* C11 as stated: GET /api/asp-recommendations answers 400, with no browser
\* launched and no network call, for every url value that does not parse or
\* whose scheme is not http or https, the empty string included; http://x
\* and https://x pass.
C11_AspRejectsInvalidUrl ==
    (Handled("GET", "/api/asp-recommendations") /\ req.url \in UrlTexts) =>
        IF req.url \in HttpUrls THEN "browser" \in calls ELSE Refused

\* What the handler validates: the url of the query, or the configured
\* default target when the query has none or an empty one.
EffectiveTarget == IF req.url \in {Undefined, EmptyString} THEN env.targetUrl ELSE req.url

\* C11 amended: GET /api/asp-recommendations answers 400, with no browser
\* launched and no network call, whenever its target does not parse or has
\* a scheme other than http or https, the target being the url of the query
\* or, when that is missing or empty, the configured default; an empty url
\* is rejected only when no valid default is configured.
C11_AspRejectsInvalidTarget ==
    Handled("GET", "/api/asp-recommendations") =>
        IF EffectiveTarget \in HttpUrls THEN "browser" \in calls ELSE Refused

C11_Witness ==
    /\ Handled("GET", "/api/asp-recommendations")
    /\ req.url = FtpX
    /\ env.targetUrl = HttpsX
    /\ apiPc = "responded"
    /\ Refused

\* C12: with PSI_API_KEY set, GET /api/audit accepts a target only if it is
\* an absolute URL with scheme exactly http or https; any other target (other
\* scheme, unparsable text, missing url) gets 400 and no page-speed request.
C12_AuditAcceptsOnlyHttp ==
    (Handled("GET", "/api/audit") /\ env.psiKey) =>
        IF req.url \in HttpUrls THEN "psi" \in calls ELSE Refused

\* C19: every error response (status 400 or more), on every route and every
\* failure path, has a JSON body with an error text.
C19_ErrorsAreJson ==
    response.status >= 400 => response.body = "error"

HasApiKey == req.body.apiKey \notin {"missing", "empty"}

HasScores == req.body.audit.present /\ req.body.audit.scores

\* C20: POST /api/recommendations answers 400, before it fetches the page or
\* calls the LLM API, whenever the body has no apiKey or the audit has no
\* scores; it makes its outbound calls only if both are present.
C20_RecommendationsNeedKeyAndScores ==
    Handled("POST", "/api/recommendations") =>
        /\ ~(HasApiKey /\ HasScores) => Refused
        /\ calls # {} => HasApiKey /\ HasScores

\* C30: without PSI_API_KEY, GET /api/audit answers 500 and makes no
\* outbound request whatever the url is (valid, invalid or missing): the
\* credential is checked before the URL, so an invalid URL is answered 400
\* only when the credential is present.
C30_MissingKeyComesFirst ==
    Handled("GET", "/api/audit") =>
        /\ ~env.psiKey => response = Response(500, "error") /\ calls = {} /\ apiPc = "responded"
        /\ response.status = 400 => env.psiKey

C30_Witness ==
    /\ Handled("GET", "/api/audit")
    /\ ~env.psiKey
    /\ req.url = NotAUrl
    /\ env.targetUrl = EmptyString
    /\ response = Response(500, "error")
    /\ calls = {}

Awaits == apiPc \in {"psi", "census", "html", "llm"}

\* C21: every outbound call of the server carries a timeout after which it
\* is aborted and treated as a local failure, so a request is answered even
\* if the remote party never answers: whenever a handler awaits an outbound
\* call, the step that times the call out and answers is possible.
C21_EveryAwaitCanTimeOut ==
    Awaits => ENABLED CallTimesOut

\* ------------------------------------------------- size probe pool, workers

\* The mapper invocations that have started and not yet settled.
Outstanding ==
    SumOf([k \in 1..Len(invoked) |-> invoked[k].started])
      - Cardinality({ k \in 1..Len(invoked) : invoked[k].rank # 0 })

\* C23: during a call of mapWithConcurrency(items, limit, mapper) the mapper
\* invocations started and not yet settled are at most
\* max(1, min(limit, items.length)), in whatever order the probes complete.
C23_OutstandingIsBounded ==
    /\ Outstanding <= Max2(1, Min2(Concurrency, Len(items)))
    /\ Outstanding = Cardinality({ w \in WorkerIds : workers[w].pc = "await" })

C23_Witness ==
    /\ poolPc = "running"
    /\ Len(items) > Concurrency
    /\ Outstanding = Concurrency
    /\ invoked[2].rank = 1
    /\ invoked[1].rank = 0
    /\ invoked[Len(items)].started = 1

\* C29: for every interleaving of the workers each item is passed to the
\* mapper exactly once, the call resolves only after every started mapper has
\* settled, and the entries returned are in the order of their items, not in
\* the order of completion.
C29_EachItemOnceInInputOrder ==
    /\ \A k \in 1..Len(invoked) : invoked[k].started <= 1
    /\ PoolDone =>
         /\ Len(invoked) = Len(items)
         /\ \A k \in 1..Len(invoked) : invoked[k].started = 1 /\ invoked[k].rank # 0
         /\ Outstanding = 0
         /\ \A j, k \in 1..Len(mapped) : j < k => mapped[j].url < mapped[k].url
         /\ \A k \in 1..Len(items) : results[k].kind = "entry" => results[k].url = items[k]

C29_Witness ==
    /\ PoolDone
    /\ Len(items) = MaxToCheck
    /\ Len(mapped) = MaxToCheck
    /\ invoked[1].rank = MaxToCheck
    /\ invoked[2].rank = 1
    /\ mapped[1].url = 1

\* ------------------------------------------------- size probe, the chain

Numeric(h) == h.kind = "digits"

\* C25: getRemoteSizeBytes follows its chain and stops at the first success:
\* the Range request is issued only if the HEAD answer had no numeric
\* content-length; the value returned is the first available of the HEAD
\* content-length, the content-range total, the content-length of the Range
\* answer and the length of the body; the body is read only when none of the
\* three header values is available.
C25_FallbackChainInOrder ==
    /\ probePc # "idle" => "head" \in probeSteps
    /\ "range" \in probeSteps => ~Numeric(headCl)
    /\ "body" \in probeSteps =>
         /\ "range" \in probeSteps
         /\ ~Numeric(headCl) /\ ~Numeric(rangeCr.total) /\ ~Numeric(rangeCl)
    /\ probePc = "returned" =>
         IF Numeric(headCl) THEN probeValue = headCl.n /\ probeSteps = {"head"}
         ELSE IF Numeric(rangeCr.total) THEN probeValue = rangeCr.total.n /\ probeSteps = {"head", "range"}
         ELSE IF Numeric(rangeCl) THEN probeValue = rangeCl.n /\ probeSteps = {"head", "range"}
         ELSE probeSteps = {"head", "range", "body"} /\ probeValue \in 0..MaxBytes

C25_Witness ==
    /\ probePc = "returned"
    /\ headCl = EmptyText
    /\ rangeCr.present /\ Numeric(rangeCr.total)
    /\ Numeric(rangeCl)
    /\ rangeCl.n # rangeCr.total.n
    /\ probeValue = rangeCr.total.n
    /\ probeSteps = {"head", "range"}

\* ---------------------------------------------- size probes of a census

\* C24: during one rendered census the size probes outstanding together
\* never exceed the probe concurrency, however many sections the page has.
C24_ProbesOfCensusAreBounded ==
    SumOf(secOut) <= Concurrency

\* ------------------------------------------------- runAudit: status Done

\* C28: status is Done only after both responses have settled, and then both
\* psiAudit and domAudit hold a parsed result; a settled run has isRunning
\* false, and a run in flight has psiAudit and domAudit null.
C28_DoneHoldsBothResults ==
    /\ status = "Done" =>
         /\ psiRes.state = "fulfilled" /\ domRes.state = "fulfilled"
         /\ psiAudit # Null /\ domAudit # Null
    /\ status \in {"Done", "Failed"} => ~isRunning
    /\ isRunning => psiAudit = Null /\ domAudit = Null

\* ------------------------------------------------------- the dashboard

\* A request sent with a key the user entered.
CarriesKey(request) ==
    request.apiKey # NoKey /\ Trim(request.apiKey[1]) # ""

\* C22: no request sent to the audit backend contains the OpenAI key, and
\* the backend never forwards one.
C22_KeyStaysInBrowser ==
    /\ \A request \in sent : ~CarriesKey(request)
    /\ forwarded = {}

\* C27: the AI output shown is never the result of a recommendations request
\* issued for an audit run earlier than the most recent one started.
C27_AiOutputOfLatestRun ==
    /\ aiText \in {0, auditRuns}
    /\ extracted \in {0, auditRuns}
    /\ suggestedKeywords \in {0, auditRuns}

\* ------------------------------------------------ nested carousel roots

\* The elements within the scope that carry a wrapper or slider class.
Markers ==
    {"w-icatcher-slider", "w-testimonials", "slick-slider", "swiper", "swiper-container"}

MarkedInScope ==
    { el \in 1..Len(tree.parent) :
        /\ el # scope
        /\ Contains(tree.parent, scope, el)
        /\ tree.classes[el] \cap Markers # {} }

\* C26: getCarouselRoots returns each matching element at most once, no
\* returned root lies inside another returned root, and every element of the
\* scope that carries a wrapper or slider class is returned or lies inside a
\* returned root.
C26_OnlyOutermostRootsOnce ==
    rootsPc = "done" =>
      /\ \A i, j \in 1..Len(found) :
           i # j => /\ found[i] # found[j]
                    /\ ~Contains(tree.parent, found[i], found[j])
      /\ \A i \in 1..Len(found) : found[i] \in MarkedInScope
      /\ \A el \in MarkedInScope :
           \E i \in 1..Len(found) : Contains(tree.parent, found[i], el)

\* A search below an element that finds a root carrying two marker classes
\* with another marked element nested in it.
C26_Witness ==
    /\ rootsPc = "done"
    /\ scope # 0
    /\ \E i \in 1..Len(found) : Cardinality(tree.classes[found[i]]) = 2
    /\ \E el \in MarkedInScope : ~InSeq(found, el)

====
